---- MODULE Spec2Model ----
(***************************************************************************)
(* Model of the Markdown <-> editor-tree engine of openmdx: the scanner,    *)
(* classifier and converter (src/src/utils/markdownToTipTap.ts), the paste *)
(* handler (src/src/extensions/ClipboardTextParser.ts), the copy handler   *)
(* with domToMarkdown (src/unnamed/part_000) and htmlToMarkdown on the     *)
(* save path (src/src/hooks/useTabs.ts).                                   *)
(*                                                                         *)
(* A JavaScript string is a sequence of one-character strings; offsets are *)
(* 0-based as in the source, and Substring/IndexOf/Split/Trim are the      *)
(* String.prototype methods the source calls.  A TLA+ string cannot hold   *)
(* the backtick character (U+0060), so BQ stands for it.                   *)
(***************************************************************************)
EXTENDS Integers, Sequences, FiniteSets, TLC

\* Number of tokens an input text is built from.
MaxToks == 5

----------------------------------------------------------------------------
(* JavaScript string primitives                                            *)

\* The backtick character.
BQ == "BQ"

\* Three backticks, the separator of text.split(...) and text.indexOf(...)
Fence == <<BQ, BQ, BQ>>

\* 'mermaid', the literal of firstLine === 'mermaid'
MermaidTag == <<"m", "e", "r", "m", "a", "i", "d">>

\* The characters String.prototype.trim removes and \s matches.
WhiteSpace == {" ", "\n", "\t", "\r"}

\* The characters after which ^ matches under the m flag.
LineTerminators == {"\n", "\r"}

\* s.substring(a, b) for 0 <= a, with b clamped to s.length
Substring(s, a, b) ==
  LET e == IF b > Len(s) THEN Len(s) ELSE b
  IN  IF a >= e THEN <<>> ELSE SubSeq(s, a + 1, e)

\* s.startsWith(pat, p)
StartsWithAt(s, pat, p) ==
  /\ p + Len(pat) <= Len(s)
  /\ \A k \in 1..Len(pat) : s[p + k] = pat[k]

\* s.indexOf(pat, from): the least offset >= from where pat occurs, else -1
IndexOf(s, pat, from) ==
  LET hits == {p \in from..(Len(s) - Len(pat)) : StartsWithAt(s, pat, p)}
  IN  IF hits = {} THEN -1
      ELSE CHOOSE p \in hits : \A q \in hits : p <= q

\* s.split(sep) for a non-empty separator
RECURSIVE Split(_, _)
Split(s, sep) ==
  LET p == IndexOf(s, sep, 0)
  IN  IF p = -1 THEN <<s>>
      ELSE <<Substring(s, 0, p)>> \o Split(Substring(s, p + Len(sep), Len(s)), sep)

\* s.trimStart()
RECURSIVE TrimStart(_)
TrimStart(s) ==
  IF s # <<>> /\ Head(s) \in WhiteSpace THEN TrimStart(Tail(s)) ELSE s

\* s.trimEnd()
RECURSIVE TrimEnd(_)
TrimEnd(s) ==
  IF s # <<>> /\ s[Len(s)] \in WhiteSpace
  THEN TrimEnd(SubSeq(s, 1, Len(s) - 1)) ELSE s

\* s.trim()
Trim(s) == TrimEnd(TrimStart(s))

\* lines.join(sep)
RECURSIVE Join(_, _)
Join(lines, sep) ==
  IF lines = <<>> THEN <<>>
  ELSE IF Len(lines) = 1 THEN lines[1]
  ELSE lines[1] \o sep \o Join(Tail(lines), sep)

\* arr.slice(1)
Slice1(arr) == IF arr = <<>> THEN <<>> ELSE Tail(arr)

----------------------------------------------------------------------------
(* detectDiagramType                                                       *)

\* The i flag: case folding of the letters the patterns and inputs use.
Lower(c) ==
  CASE c = "B" -> "b" [] c = "C" -> "c" [] c = "D" -> "d" [] c = "E" -> "e"
    [] c = "G" -> "g" [] c = "I" -> "i" [] c = "L" -> "l" [] c = "M" -> "m"
    [] c = "P" -> "p" [] c = "R" -> "r" [] c = "T" -> "t"
    [] OTHER -> c

\* The literal pat matches s at offset p, ignoring case.
MatchesWordAt(s, pat, p) ==
  /\ p + Len(pat) <= Len(s)
  /\ \A k \in 1..Len(pat) : Lower(s[p + k]) = Lower(pat[k])

\* Offsets where ^ matches under the m flag.
LineStarts(s) ==
  {0} \cup {p \in 1..Len(s) : s[p] \in LineTerminators}

\* The offset just after \s+ matched greedily from p, or -1 when \s+ fails.
RECURSIVE SkipSpaces(_, _)
SkipSpaces(s, p) ==
  IF p < Len(s) /\ s[p + 1] \in WhiteSpace
  THEN LET q == SkipSpaces(s, p + 1) IN IF q = -1 THEN p + 1 ELSE q
  ELSE -1

\* (?:TD|LR|RL|BT)
Directions == {<<"T", "D">>, <<"L", "R">>, <<"R", "L">>, <<"B", "T">>}

\* typePatterns: word is the literal after ^; tail is what follows it:
\* "dir" = \s+(?:TD|LR|RL|BT), "ws" = \s+, "none" = nothing.
typePatterns == <<
  [word |-> <<"g","r","a","p","h">>, tail |-> "dir", type |-> "flowchart"],
  [word |-> <<"g","r","a","p","h">>, tail |-> "ws", type |-> "flowchart"],
  [word |-> <<"f","l","o","w","c","h","a","r","t">>, tail |-> "none", type |-> "flowchart"],
  [word |-> <<"s","e","q","u","e","n","c","e","D","i","a","g","r","a","m">>, tail |-> "none", type |-> "sequence"],
  [word |-> <<"c","l","a","s","s","D","i","a","g","r","a","m">>, tail |-> "none", type |-> "class"],
  [word |-> <<"s","t","a","t","e","D","i","a","g","r","a","m">>, tail |-> "none", type |-> "state"],
  [word |-> <<"g","a","n","t","t">>, tail |-> "none", type |-> "gantt"],
  [word |-> <<"p","i","e">>, tail |-> "none", type |-> "pie"],
  [word |-> <<"m","i","n","d","m","a","p">>, tail |-> "none", type |-> "mindmap"],
  [word |-> <<"e","r","D","i","a","g","r","a","m">>, tail |-> "none", type |-> "er"],
  [word |-> <<"g","i","t","G","r","a","p","h">>, tail |-> "none", type |-> "git"],
  [word |-> <<"t","i","m","e","l","i","n","e">>, tail |-> "none", type |-> "timeline"],
  [word |-> <<"j","o","u","r","n","e","y">>, tail |-> "none", type |-> "journey"],
  [word |-> <<"q","u","a","d","r","a","n","t","C","h","a","r","t">>, tail |-> "none", type |-> "quadrant"],
  [word |-> <<"C","4","C","o","n","t","e","x","t">>, tail |-> "none", type |-> "c4"],
  [word |-> <<"r","e","q","u","i","r","e","m","e","n","t","D","i","a","g","r","a","m">>, tail |-> "none", type |-> "requirement"]
>>

\* regex.test(content) for one entry of typePatterns. \s+ backtracks, so the
\* direction may follow any non-empty prefix of the white-space run.
RegexTest(pat, content) ==
  \E p \in LineStarts(content) :
    /\ MatchesWordAt(content, pat.word, p)
    /\ LET q == p + Len(pat.word)
           e == SkipSpaces(content, q)
       IN  CASE pat.tail = "none" -> TRUE
             [] pat.tail = "ws"   -> e # -1
             [] pat.tail = "dir"  ->
                  /\ e # -1
                  /\ \E r \in (q + 1)..e : \E d \in Directions :
                       MatchesWordAt(content, d, r)

\* The patterns of typePatterns that match content.
Hits(content) ==
  {k \in 1..Len(typePatterns) : RegexTest(typePatterns[k], content)}

\* The loop over typePatterns without the return after it.
detectDiagramTypeNoDefault(content) ==
  IF Hits(content) = {} THEN "undefined"
  ELSE typePatterns[CHOOSE k \in Hits(content) : \A j \in Hits(content) : k <= j].type

\* for (const { regex, type } of typePatterns) ...; return 'flowchart'
detectDiagramType(content) ==
  LET hits == {k \in 1..Len(typePatterns) : RegexTest(typePatterns[k], content)}
  IN  IF hits = {} THEN "flowchart"
      ELSE typePatterns[CHOOSE k \in hits : \A j \in hits : k <= j].type

----------------------------------------------------------------------------
(* extractMermaidBlocks                                                    *)

\* const parts = text.split(Fence)
Parts(text) == Split(text, Fence)

\* The loop that fills positions: one indexOf per separator, searchPos
\* advancing past each hit.
RECURSIVE PositionsFrom(_, _, _)
PositionsFrom(text, searchPos, n) ==
  IF n = 0 THEN <<>>
  ELSE LET pos == IndexOf(text, Fence, searchPos)
       IN  IF pos # -1
           THEN <<pos>> \o PositionsFrom(text, pos + 3, n - 1)
           ELSE PositionsFrom(text, searchPos, n - 1)

Positions(text) == PositionsFrom(text, 0, Len(Parts(text)) - 1)

\* const firstLine = content.trim().split('\n')[0].trim()
FirstLine(content) == Trim(Split(Trim(content), <<"\n">>)[1])

\* firstLine === 'mermaid'
IsMermaid(content) == FirstLine(content) = MermaidTag

\* const mermaidContent = lines.slice(1).join('\n').trim()
MermaidContent(content) ==
  Trim(Join(Slice1(Split(content, <<"\n">>)), <<"\n">>))

\* const startIndex = positions[i]   (i is the 0-based loop index)
StartIndex(positions, i) == positions[i + 1]

\* positions[i + 1] !== undefined ? positions[i + 1] + 3 : text.length
EndIndex(text, positions, i) ==
  IF i + 2 <= Len(positions) THEN positions[i + 2] + 3 ELSE Len(text)

\* The object pushed onto blocks in iteration i.
MakeBlock(text, parts, positions, i) ==
  [content     |-> MermaidContent(parts[i + 2]),
   startIndex  |-> StartIndex(positions, i),
   endIndex    |-> EndIndex(text, positions, i),
   diagramType |-> detectDiagramType(MermaidContent(parts[i + 2]))]

\* The values of i the second loop visits: i = 0 .. parts.length - 2.
LoopIndices(parts) == 0..(Len(parts) - 2)

\* Variant of BlocksFrom that inserts each block at the front of blocks
\* (unshift instead of push).
RECURSIVE BlocksFromUnshift(_, _, _, _)
BlocksFromUnshift(text, parts, positions, i) ==
  IF i \notin LoopIndices(parts) THEN <<>>
  ELSE BlocksFromUnshift(text, parts, positions, i + 1)
       \o (IF IsMermaid(parts[i + 2])
           THEN <<MakeBlock(text, parts, positions, i)>> ELSE <<>>)

\* The second loop from iteration i on: content = parts[i + 1] is tested in
\* every iteration.
RECURSIVE BlocksFrom(_, _, _, _)
BlocksFrom(text, parts, positions, i) ==
  IF i \notin LoopIndices(parts) THEN <<>>
  ELSE (IF IsMermaid(parts[i + 2])
        THEN <<MakeBlock(text, parts, positions, i)>> ELSE <<>>)
       \o BlocksFrom(text, parts, positions, i + 1)

extractMermaidBlocks(text) ==
  BlocksFrom(text, Parts(text), Positions(text), 0)

----------------------------------------------------------------------------
(* convertMarkdownToTipTapNodes                                            *)

\* The nodes of one delegation to the standard converter
\* (convertMarkdownToHTML, innerHTML, parseSlice): the converter is an
\* external collaborator, so its result is kept as the delegated substring
\* and the offsets [from, to) it was cut from.
StdNodes(md, from, to) ==
  <<[type |-> "std", from |-> from, to |-> to, src |-> Substring(md, from, to)]>>

\* if (s.trim()) { ...convert s = md.substring(from, to)... }
StdNodesIfNonBlank(md, from, to) ==
  IF Trim(Substring(md, from, to)) # <<>> THEN StdNodes(md, from, to) ELSE <<>>

\* Variant of WholeNodes that skips a blank text, as the other branches do.
WholeNodesIfNonBlank(md) == StdNodesIfNonBlank(md, 0, Len(md))

\* The branch taken when mermaidBlocks.length === 0.
WholeNodes(md) == StdNodes(md, 0, Len(md))

\* if (block.startIndex > lastIndex) { beforeText ... }
BeforeNodes(md, cursor, block) ==
  IF block.startIndex > cursor
  THEN StdNodesIfNonBlank(md, cursor, block.startIndex) ELSE <<>>

\* schema.nodes.mermaidBlock.create({...}, [schema.text(block.content)])
MermaidNode(block) ==
  [type |-> "mermaidBlock", diagramType |-> block.diagramType,
   viewMode |-> "preview", theme |-> "default", content |-> block.content]

\* schema.nodes.paragraph.create()
ParaNode == [type |-> "paragraph"]

\* What a call leaves behind when schema.text('') throws its RangeError.
Thrown == <<[type |-> "RangeError"]>>

\* Variant of NeedsSeparator that ignores trailing text.
NeedsSeparatorNotLast(md, mermaidBlocks, k) == k < Len(mermaidBlocks)

\* i < mermaidBlocks.length - 1 || block.endIndex < markdownText.length
\* (k is the 1-based number of the block)
NeedsSeparator(md, mermaidBlocks, k) ==
  k < Len(mermaidBlocks) \/ mermaidBlocks[k].endIndex < Len(md)

\* Variant of NextCursor that leaves the cursor at the opening fence.
NextCursorAtStart(block) == block.startIndex

\* lastIndex = block.endIndex
NextCursor(block) == block.endIndex

\* Variant of AfterNodes that cuts afterText one character too late.
AfterNodesOffByOne(md, cursor) ==
  IF cursor < Len(md) THEN StdNodesIfNonBlank(md, cursor + 1, Len(md)) ELSE <<>>

\* if (lastIndex < markdownText.length) { afterText ... }
AfterNodes(md, cursor) ==
  IF cursor < Len(md) THEN StdNodesIfNonBlank(md, cursor, Len(md)) ELSE <<>>

----------------------------------------------------------------------------
(* Inputs                                                                  *)

\* 'Mermaid', a tag that differs from the marker by case only.
CapTag == <<"M", "e", "r", "m", "a", "i", "d">>

\* 'pie', a diagram keyword that also serves as ordinary text.
PieWord == <<"p", "i", "e">>

\* The opening of a mermaid fence with its first line of content.
OpenDiagram == Fence \o MermaidTag \o <<"\n">> \o PieWord

\* The pieces input texts are concatenated from.
Tokens == {Fence, MermaidTag, CapTag, PieWord, <<"\n">>, <<" ">>, OpenDiagram}

\* The concatenation of the first n pieces of toks.
RECURSIVE Concat(_, _)
Concat(toks, n) ==
  IF n = 0 THEN <<>> ELSE Concat(toks, n - 1) \o toks[n]

----------------------------------------------------------------------------
(* State machine: one call of convertMarkdownToTipTapNodes(markdownText)   *)

VARIABLES
  markdownText,   \* the argument
  pc,             \* position in the function
  mermaidBlocks,  \* result of extractMermaidBlocks
  i,              \* loop index (number of blocks already handled)
  lastIndex,      \* the cursor
  contentNodes    \* nodes pushed so far; the return value when pc = "done"

\* State of the other entry points (the classifier called on its own, the
\* paste and copy handlers, the serializers); each is declared here and left
\* alone by the conversion.
VARIABLES
  content,           \* the argument of detectDiagramType
  diagramType,       \* what the first call returned
  diagramTypeAgain   \* what a second call on the same argument returned

classifyVars == <<content, diagramType, diagramTypeAgain>>

ClassifyIdle ==
  /\ content = <<>>
  /\ diagramType = "none"
  /\ diagramTypeAgain = "none"

convertVars == <<markdownText, mermaidBlocks, i, lastIndex, contentNodes>>

ConvertIdle ==
  /\ markdownText = <<>>
  /\ mermaidBlocks = <<>>
  /\ i = 0
  /\ lastIndex = 0
  /\ contentNodes = <<>>

VARIABLES
  clipboardText,     \* event.clipboardData?.getData('text/plain'); empty when absent
  defaultPrevented,  \* event.defaultPrevented
  conversionRan,     \* whether the handler started a conversion of its input
  dispatched,        \* the transactions given to view.dispatch, in order
  returned           \* "handled" (true), "not handled" (false), "none" (not yet)

pasteVars == <<clipboardText, defaultPrevented, conversionRan, dispatched, returned>>

PasteIdle ==
  /\ clipboardText = <<>>
  /\ defaultPrevented = FALSE
  /\ conversionRan = FALSE
  /\ dispatched = <<>>
  /\ returned = "none"

VARIABLES
  doc,               \* the editor's document as its rendered DOM: the top-level elements
  selection,         \* view.state.selection: present, from, to (in top-level blocks)
  copyPrevented,     \* defaultPrevented of the copy event
  copyReturned,      \* what the copy handler returned
  clipboard,         \* what setData put on the clipboard, by type
  saved              \* the text handed to saveFile

serializeVars == <<doc, selection, copyPrevented, copyReturned, clipboard, saved>>

\* Nothing has been put on the clipboard under a type / no file written.
Unset == <<"unset">>

SerializeIdle ==
  /\ doc = <<>>
  /\ selection = [present |-> FALSE, from |-> 0, to |-> 0]
  /\ copyPrevented = FALSE
  /\ copyReturned = "none"
  /\ clipboard = [plain |-> Unset, html |-> Unset]
  /\ saved = Unset

VARIABLES
  serialized,        \* the Markdown a serializer made of the converted tree
  rescanned          \* extractMermaidBlocks of that Markdown

roundTripVars == <<serialized, rescanned>>

RoundTripIdle ==
  /\ serialized = Unset
  /\ rescanned = <<>>

\* useTabs: the two pieces of React state, and the world around them.
VARIABLES
  tabs,              \* useState<Tab[]>: records id, path, content, isModified
  activeTabId,       \* useState<string>; 0 stands for ''
  now,               \* Date.now(), the source of tab ids
  synced,            \* per path: the tab content last written to or read from it
  saving,            \* the handleSaveFile call in flight, and where it stands
  lastRead,          \* the path and text read, when the last step was an open
  closedId           \* the tab closed, when the last step was a close (else 0)

tabVars == <<tabs, activeTabId, now, synced, saving, lastRead, closedId>>

\* path: null
NoPath == "none"

\* The paths the dialogs can return.
Paths == {"a.md", "b.txt"}

\* No content was ever written to or read from a path.
Never == <<[type |-> "never"]>>

NoSave == [stage |-> "idle", id |-> 0, path |-> NoPath, hadPath |-> FALSE, content |-> <<>>]

TabsIdle ==
  /\ tabs = <<>>
  /\ activeTabId = 0
  /\ now = 1
  /\ synced = [p \in Paths |-> Never]
  /\ saving = NoSave
  /\ lastRead = [path |-> NoPath, text |-> <<>>]
  /\ closedId = 0

\* The headings of the editor's document, as the heading-id plugin sees them.
VARIABLES
  docNodes,             \* newState.doc: its docNodes in document order, with type and id
  clock,             \* Date.now()
  processed          \* appendTransaction has run on a transaction that changed the document

headingVars == <<docNodes, clock, processed>>

HeadingsIdle ==
  /\ docNodes = <<>>
  /\ clock = 1
  /\ processed = FALSE

\* MermaidBlockNodeView: one diagram node and the React state of its view.
VARIABLES
  nodeText,          \* the text content of the diagram node in the document
  sourceCode,        \* useState(getSourceCode())
  currentTheme,      \* useState(theme)
  resolvedTheme,     \* useTheme().resolvedTheme
  viewMode,          \* node.attrs.viewMode
  renderedSvg,       \* useState('')
  renderError,       \* useState(null)
  isRendering,       \* useState(false)
  timer,             \* the pending debounce timeout and what its closure holds
  inflight,          \* the renderMermaid calls that have not settled
  requests,          \* how many renderMermaid calls were made
  latest,            \* the arguments of the latest renderDiagram call
  exported           \* per block: what processMermaidInHTML was given and what it put there

viewVars == <<nodeText, sourceCode, currentTheme, resolvedTheme, viewMode,
              renderedSvg, renderError, isRendering, timer, inflight, requests,
              latest, exported>>

\* setRenderedSvg('')
NoSvg == [code |-> <<>>, theme |-> "none"]

\* setRenderError(null)
NoError == <<>>

\* No timeout is pending.
NoTimer == [set |-> FALSE, code |-> <<>>, theme |-> "none", viewMode |-> "source"]

\* renderDiagram was not called yet.
NoRequest == [code |-> <<>>, theme |-> "none"]

ViewIdle ==
  /\ nodeText = <<>>
  /\ sourceCode = <<>>
  /\ currentTheme = "default"
  /\ resolvedTheme = "light"
  /\ viewMode = "source"
  /\ renderedSvg = NoSvg
  /\ renderError = NoError
  /\ isRendering = FALSE
  /\ timer = NoTimer
  /\ inflight = {}
  /\ requests = 0
  /\ latest = NoRequest
  /\ exported = <<>>

\* Two functions called on one text, side by side.
VARIABLES
  markdownInput,     \* the text both are called on
  nodesResult,       \* what convertMarkdownToTipTapNodes made of it
  htmlResult,        \* what convertMarkdownToTipTapHTML made of it
  pastedHtml,        \* html of handlePaste before it is parsed
  convertedHtml      \* what convertMarkdownToHTML returned

compareVars == <<markdownInput, nodesResult, htmlResult, pastedHtml, convertedHtml>>

\* The function was not called.
NotCalled == <<[type |-> "not called"]>>

CompareIdle ==
  /\ markdownInput = <<>>
  /\ nodesResult = NotCalled
  /\ htmlResult = NotCalled
  /\ pastedHtml = NotCalled
  /\ convertedHtml = NotCalled

appVars == <<tabVars, headingVars, viewVars, compareVars>>

AppIdle == TabsIdle /\ HeadingsIdle /\ ViewIdle /\ CompareIdle

notConvertVars == <<classifyVars, pasteVars, serializeVars, roundTripVars, appVars>>

notClassifyVars == <<convertVars, pasteVars, serializeVars, roundTripVars, appVars>>

NotClassifyIdle == ConvertIdle /\ PasteIdle /\ SerializeIdle /\ RoundTripIdle /\ AppIdle

notPasteVars == <<convertVars, classifyVars, serializeVars, roundTripVars, appVars>>

NotPasteIdle == ConvertIdle /\ ClassifyIdle /\ SerializeIdle /\ RoundTripIdle /\ AppIdle

notSerializeVars == <<convertVars, classifyVars, pasteVars, roundTripVars, appVars>>

NotSerializeIdle == ConvertIdle /\ ClassifyIdle /\ PasteIdle /\ RoundTripIdle /\ AppIdle

vars == <<pc, convertVars, notConvertVars>>

Init ==
  /\ \E n \in 0..MaxToks :
       \E toks \in [1..n -> Tokens] : markdownText = Concat(toks, n)
  /\ pc = "start"
  /\ mermaidBlocks = <<>>
  /\ i = 0
  /\ lastIndex = 0
  /\ contentNodes = <<>>
  /\ ClassifyIdle
  /\ PasteIdle
  /\ SerializeIdle
  /\ RoundTripIdle
  /\ AppIdle

\* const mermaidBlocks = extractMermaidBlocks(markdownText)
Extract ==
  /\ pc = "start"
  /\ mermaidBlocks' = extractMermaidBlocks(markdownText)
  /\ pc' = IF mermaidBlocks' = <<>> THEN "whole" ELSE "loop"
  /\ UNCHANGED <<markdownText, i, lastIndex, contentNodes>>
  /\ UNCHANGED notConvertVars

\* if (mermaidBlocks.length === 0) { ...; return nodes }
ConvertWhole ==
  /\ pc = "whole"
  /\ contentNodes' = WholeNodes(markdownText)
  /\ pc' = "done"
  /\ UNCHANGED <<markdownText, mermaidBlocks, i, lastIndex>>
  /\ UNCHANGED notConvertVars

\* An iteration of the loop on a segment without content: schema.text('')
\* throws RangeError (a text node may not be empty) and the function is left.
ConvertThrows ==
  /\ pc = "loop"
  /\ i < Len(mermaidBlocks)
  /\ mermaidBlocks[i + 1].content = <<>>
  /\ pc' = "threw"
  /\ UNCHANGED <<markdownText, mermaidBlocks, i, lastIndex, contentNodes>>
  /\ UNCHANGED notConvertVars

\* One iteration of for (let i = 0; i < mermaidBlocks.length; i++)
ConvertBlock ==
  /\ pc = "loop"
  /\ i < Len(mermaidBlocks)
  /\ mermaidBlocks[i + 1].content # <<>>
  /\ LET block == mermaidBlocks[i + 1]
     IN  /\ contentNodes' =
              contentNodes
                \o BeforeNodes(markdownText, lastIndex, block)
                \o <<MermaidNode(block)>>
                \o (IF NeedsSeparator(markdownText, mermaidBlocks, i + 1)
                    THEN <<ParaNode>> ELSE <<>>)
         /\ lastIndex' = NextCursor(block)
  /\ i' = i + 1
  /\ UNCHANGED <<markdownText, pc, mermaidBlocks>>
  /\ UNCHANGED notConvertVars

\* The code after the loop, up to return contentNodes
ConvertTail ==
  /\ pc = "loop"
  /\ i = Len(mermaidBlocks)
  /\ contentNodes' = contentNodes \o AfterNodes(markdownText, lastIndex)
  /\ pc' = "done"
  /\ UNCHANGED <<markdownText, mermaidBlocks, i, lastIndex>>
  /\ UNCHANGED notConvertVars

Next == Extract \/ ConvertWhole \/ ConvertThrows \/ ConvertBlock \/ ConvertTail

Spec == Init /\ [][Next]_vars

----------------------------------------------------------------------------
(* Reference notions of the specification, stated on the text alone        *)

\* The scan has run: mermaidBlocks holds the scanner's result.
Scanned == pc # "start"

\* The call has returned: contentNodes is the returned node list.
Returned == pc = "done"

\* Offsets of the fence delimiters of text: the non-overlapping occurrences
\* of three backticks, taken left to right.
RECURSIVE DelimitersFrom(_, _)
DelimitersFrom(text, from) ==
  LET hits == {p \in from..(Len(text) - 3) : SubSeq(text, p + 1, p + 3) = Fence}
  IN  IF hits = {} THEN {}
      ELSE LET p == CHOOSE h \in hits : \A q \in hits : h <= q
           IN  {p} \cup DelimitersFrom(text, p + 3)

Delimiters(text) == DelimitersFrom(text, 0)

\* p is the 1st, 3rd, 5th, ... delimiter of text.
IsOpeningFence(text, p) ==
  /\ p \in Delimiters(text)
  /\ Cardinality({q \in Delimiters(text) : q <= p}) % 2 = 1

\* The delimiters after the one at p.
LaterDelimiters(text, p) == {q \in Delimiters(text) : q > p}

\* Offset of the delimiter that follows the one at p; only used when one exists.
NextDelimiter(text, p) ==
  CHOOSE q \in LaterDelimiters(text, p) : \A r \in LaterDelimiters(text, p) : q <= r

\* Offset just after the region a fence opened at p delimits.
RegionEnd(text, p) ==
  IF LaterDelimiters(text, p) = {} THEN Len(text) ELSE NextDelimiter(text, p) + 3

\* The text between the delimiter at p and the next delimiter (or the end).
Interior(text, p) ==
  IF LaterDelimiters(text, p) = {}
  THEN SubSeq(text, p + 4, Len(text))
  ELSE SubSeq(text, p + 4, NextDelimiter(text, p))

\* The lines of s.
LinesOf(s) == Split(s, <<"\n">>)

\* Numbers of the lines of s that hold a non-white-space character.
NonBlankLines(s) == {n \in 1..Len(LinesOf(s)) : Trim(LinesOf(s)[n]) # <<>>}

\* Number of the first non-blank line of s; only used when one exists.
FirstNonBlank(s) ==
  CHOOSE n \in NonBlankLines(s) : \A m \in NonBlankLines(s) : n <= m

\* The first non-blank line of s, trimmed (empty when s is blank).
FirstNonBlankLine(s) ==
  IF NonBlankLines(s) = {} THEN <<>> ELSE Trim(LinesOf(s)[FirstNonBlank(s)])

\* s with everything up to and including its first non-blank line (the tag
\* line) removed, trimmed.
TagLineRemoved(s) ==
  IF NonBlankLines(s) = {} THEN <<>>
  ELSE Trim(Join(SubSeq(LinesOf(s), FirstNonBlank(s) + 1, Len(LinesOf(s))), <<"\n">>))

\* Every scanned segment starts at an opening fence.
EverySegmentFenced ==
  \A k \in 1..Len(mermaidBlocks) :
    IsOpeningFence(markdownText, mermaidBlocks[k].startIndex)

\* Indices of the nodes of a given type in the returned list.
NodesOfType(t) == {n \in 1..Len(contentNodes) : contentNodes[n].type = t}

\* The node at n is the DiagramBlock of the segment with this number.
SegmentOf(n) == Cardinality({m \in NodesOfType("mermaidBlock") : m <= n})

\* Offset in the source text at which the content of node n starts.
SourceStart(n) ==
  IF contentNodes[n].type = "std" THEN contentNodes[n].from
  ELSE mermaidBlocks[SegmentOf(n)].startIndex

\* The delegations to the standard converter that cover offset p.
DelegationsOf(p) ==
  {n \in NodesOfType("std") : contentNodes[n].from <= p /\ p < contentNodes[n].to}

\* Offset p lies in the range of some scanned segment.
InSegment(p) ==
  \E k \in 1..Len(mermaidBlocks) :
    mermaidBlocks[k].startIndex <= p /\ p < mermaidBlocks[k].endIndex

----------------------------------------------------------------------------
(* Claims about the scanner                                                *)

\* C1: every segment the scanner returns starts at an opening fence (the
\* 1st, 3rd, 5th, ... delimiter); the text after a closing fence is never
\* reported as a segment.
C1_SegmentsAreInsideFence ==
  Scanned =>
    \A k \in 1..Len(mermaidBlocks) :
      IsOpeningFence(markdownText, mermaidBlocks[k].startIndex)

\* C2: the content of every segment is the fence interior with the tag line
\* removed and the surrounding white space trimmed, also when blank lines
\* precede the tag line.
C2_ContentIsInteriorWithoutTag ==
  Scanned =>
    \A k \in 1..Len(mermaidBlocks) :
      mermaidBlocks[k].content =
        TagLineRemoved(Interior(markdownText, mermaidBlocks[k].startIndex))

\* C3: startIndex is the offset of the opening fence and endIndex the offset
\* just after the matching closing fence, or text.length when the fence is
\* never closed.
C3_RangeIsFencedRegion ==
  Scanned =>
    \A k \in 1..Len(mermaidBlocks) :
      /\ IsOpeningFence(markdownText, mermaidBlocks[k].startIndex)
      /\ mermaidBlocks[k].endIndex =
           RegionEnd(markdownText, mermaidBlocks[k].startIndex)

\* The text has exactly one fenced block (closed or not) and the first
\* non-blank line of that block is not the marker.
OnlyOtherLanguageBlock(text) ==
  /\ Cardinality(Delimiters(text)) \in {1, 2}
  /\ FirstNonBlankLine(Interior(text, IndexOf(text, Fence, 0))) # MermaidTag

\* C4: a span is reported only if its first non-blank line, trimmed, is
\* exactly 'mermaid'; a text whose only fenced block carries another tag
\* yields no segment and is handed whole to the standard converter.
C4_OnlyMermaidTagged ==
  /\ Scanned =>
       \A k \in 1..Len(mermaidBlocks) :
         FirstNonBlankLine(Interior(markdownText, mermaidBlocks[k].startIndex))
           = MermaidTag
  /\ (Scanned /\ OnlyOtherLanguageBlock(markdownText)) =>
       /\ mermaidBlocks = <<>>
       /\ Returned =>
            contentNodes = <<[type |-> "std", from |-> 0,
                              to |-> Len(markdownText), src |-> markdownText]>>

\* C5: the segments are in strictly ascending startIndex order.
C5_AscendingStartIndex ==
  Scanned =>
    \A j, k \in 1..Len(mermaidBlocks) :
      j < k => mermaidBlocks[j].startIndex < mermaidBlocks[k].startIndex

\* Two segments that both start at an opening fence have been scanned.
C5_Witness ==
  /\ Scanned
  /\ \E j, k \in 1..Len(mermaidBlocks) :
       /\ j < k
       /\ IsOpeningFence(markdownText, mermaidBlocks[j].startIndex)
       /\ IsOpeningFence(markdownText, mermaidBlocks[k].startIndex)

----------------------------------------------------------------------------
(* Claims about convert                                                    *)

\* The DiagramBlock nodes of the returned list, in order.
DiagramNodes == SelectSeq(contentNodes, LAMBDA n : n.type = "mermaidBlock")

\* The text is one well-formed mermaid block (opening fence, the marker, a
\* newline, the interior, a closing fence on a line of its own) with
\* ordinary text before and after it.
OneWellFormedBlock(text) ==
  /\ Cardinality(Delimiters(text)) = 2
  /\ LET inner == Interior(text, IndexOf(text, Fence, 0))
     IN  /\ Len(inner) > Len(MermaidTag)
         /\ SubSeq(inner, 1, Len(MermaidTag) + 1) = MermaidTag \o <<"\n">>
         /\ inner[Len(inner)] = "\n"

\* The interior C of that block: what lies between the tag line and the
\* closing fence.
InteriorC(text) ==
  LET inner == Interior(text, IndexOf(text, Fence, 0))
  IN  SubSeq(inner, Len(MermaidTag) + 2, Len(inner))

\* C6: convert returns one DiagramBlock per scanned segment, in segment
\* order, with kind = segment.kind, viewMode = preview, theme = default and
\* sourceText = segment.content; a text with exactly one well-formed mermaid
\* block with interior C yields exactly one DiagramBlock, with sourceText
\* equal to C trimmed.
C6_OneDiagramBlockPerSegment ==
  Returned =>
    /\ Len(DiagramNodes) = Len(mermaidBlocks)
    /\ \A k \in 1..Len(mermaidBlocks) :
         /\ DiagramNodes[k].diagramType = mermaidBlocks[k].diagramType
         /\ DiagramNodes[k].viewMode = "preview"
         /\ DiagramNodes[k].theme = "default"
         /\ DiagramNodes[k].content = mermaidBlocks[k].content
    /\ OneWellFormedBlock(markdownText) =>
         /\ Len(DiagramNodes) = 1
         /\ DiagramNodes[1].content = Trim(InteriorC(markdownText))

\* The gap before segment k: from the end of the previous segment (or 0) to
\* the start of segment k.
GapFrom(k) == IF k = 1 THEN 0 ELSE mermaidBlocks[k - 1].endIndex

\* The spans of text convert has to delegate: the non-blank gaps before the
\* segments and the non-blank trailing text.
ExpectedDelegations ==
  {<<GapFrom(k), mermaidBlocks[k].startIndex>> :
      k \in {j \in 1..Len(mermaidBlocks) :
               /\ GapFrom(j) < mermaidBlocks[j].startIndex
               /\ Trim(SubSeq(markdownText, GapFrom(j) + 1,
                              mermaidBlocks[j].startIndex)) # <<>>}}
  \cup
  {<<mermaidBlocks[Len(mermaidBlocks)].endIndex, Len(markdownText)>> :
      k \in {j \in {1} :
               Trim(SubSeq(markdownText,
                           mermaidBlocks[Len(mermaidBlocks)].endIndex + 1,
                           Len(markdownText))) # <<>>}}

C8_DiagramNeverDelegated ==
  \A n \in NodesOfType("std") :
    \A k \in 1..Len(mermaidBlocks) :
      \/ contentNodes[n].to <= mermaidBlocks[k].startIndex
      \/ contentNodes[n].from >= mermaidBlocks[k].endIndex

\* A delegation follows a segment: the text after a diagram was converted.
C8_Witness ==
  /\ Returned
  /\ EverySegmentFenced
  /\ \E n \in NodesOfType("std") :
       \E k \in 1..Len(mermaidBlocks) :
         contentNodes[n].from >= mermaidBlocks[k].endIndex

\* C9: a DiagramBlock is followed by exactly one empty Paragraph if and only
\* if its segment is not the last one or text remains after it; empty
\* Paragraphs are appended nowhere else.
C9_SeparatorIffMoreFollows ==
  Returned =>
    /\ \A n \in NodesOfType("mermaidBlock") :
         (n < Len(contentNodes) /\ contentNodes[n + 1].type = "paragraph")
           <=> \/ SegmentOf(n) < Len(mermaidBlocks)
               \/ mermaidBlocks[SegmentOf(n)].endIndex < Len(markdownText)
    /\ \A n \in NodesOfType("paragraph") :
         n > 1 /\ contentNodes[n - 1].type = "mermaidBlock"

\* One diagram is followed by a separator and the last one, which ends the
\* text, is not.
C9_Witness ==
  /\ Returned
  /\ EverySegmentFenced
  /\ NodesOfType("paragraph") # {}
  /\ contentNodes[Len(contentNodes)].type = "mermaidBlock"
  /\ mermaidBlocks[Len(mermaidBlocks)].endIndex = Len(markdownText)

----------------------------------------------------------------------------
(* The classifier called on its own: detectDiagramType(content), twice     *)

MaxClassToks == 4

\* type MermaidDiagramType
MermaidDiagramType ==
  {"flowchart", "sequence", "class", "state", "gantt", "pie", "mindmap",
   "er", "git", "timeline", "journey", "quadrant", "c4", "requirement"}

GraphWord == <<"g", "r", "a", "p", "h">>

\* The pieces diagram sources are concatenated from: keywords in both cases,
\* a direction, a letter that starts no keyword, a line break and a space.
ClassTokens ==
  {GraphWord, <<"T", "D">>, PieWord, <<"P", "I", "E">>, <<"x">>,
   <<"\n">>, <<" ">>}

ClassifyInit ==
  /\ \E n \in 0..MaxClassToks :
       \E toks \in [1..n -> ClassTokens] : content = Concat(toks, n)
  /\ pc = "classify"
  /\ diagramType = "none"
  /\ diagramTypeAgain = "none"
  /\ NotClassifyIdle

\* detectDiagramType(content)
Detect ==
  /\ pc = "classify"
  /\ diagramType' = detectDiagramType(content)
  /\ pc' = "classified"
  /\ UNCHANGED <<content, diagramTypeAgain, notClassifyVars>>

\* detectDiagramType(content) once more, on the same argument
DetectAgain ==
  /\ pc = "classified"
  /\ diagramTypeAgain' = detectDiagramType(content)
  /\ pc' = "reclassified"
  /\ UNCHANGED <<content, diagramType, notClassifyVars>>

ClassifyNext == Detect \/ DetectAgain

SpecClassify == ClassifyInit /\ [][ClassifyNext]_vars

----------------------------------------------------------------------------
(* Claims about the classifier                                             *)

\* No entry of typePatterns matches the text.
NoPatternMatches(text) ==
  \A k \in 1..Len(typePatterns) : ~RegexTest(typePatterns[k], text)

FirstContentLine(text) ==
  IF NonBlankLines(text) = {} THEN <<>>
  ELSE LinesOf(text)[FirstNonBlank(text)]

\* C12: the kind is that of the first pattern, in priority order, that
\* matches the first content line; later lines never change the result.
C12_KindFromFirstContentLine ==
  pc \in {"classified", "reclassified"} =>
    diagramType = detectDiagramType(FirstContentLine(content))

----------------------------------------------------------------------------
(* The paste handler (src/src/extensions/ClipboardTextParser.ts)           *)

MaxPasteToks == 3

\* \s at offset p
IsSpaceAt(s, p) == p < Len(s) /\ s[p + 1] \in WhiteSpace

\* c{min,max} at offset p: some n in min..max with c at p .. p+n-1; the set
\* of offsets where such a run can end.
RunEnds(s, chars, p, min, max) ==
  {p + n : n \in {m \in min..max :
                    /\ p + m <= Len(s)
                    /\ \A k \in 1..m : s[p + k] \in chars}}

\* open[^x]+close somewhere in s (x = the characters of excluded).
Enclosed(s, open, close, excluded) ==
  \E p \in 0..Len(s) : \E q \in (p + Len(open) + 1)..Len(s) :
    /\ StartsWithAt(s, open, p)
    /\ StartsWithAt(s, close, q)
    /\ \A k \in (p + Len(open) + 1)..q : s[k] \notin excluded

\* .* between offsets a and b: no line terminator in s[a..b-1]
DotStar(s, a, b) == \A k \in (a + 1)..b : s[k] \notin LineTerminators

Digits == {"0", "1", "2", "3", "4", "5", "6", "7", "8", "9"}

\* /^#{1,6}\s/m
HeadingPattern(s) ==
  \E p \in LineStarts(s) : \E e \in RunEnds(s, {"#"}, p, 1, 6) : IsSpaceAt(s, e)

\* /\*\*[^*]+\*\*/m
BoldPattern(s) == Enclosed(s, <<"*", "*">>, <<"*", "*">>, {"*"})

\* /\*[^*]+\*/m
ItalicPattern(s) == Enclosed(s, <<"*">>, <<"*">>, {"*"})

\* /^[-*+]\s/m
BulletPattern(s) ==
  \E p \in LineStarts(s) :
    p < Len(s) /\ s[p + 1] \in {"-", "*", "+"} /\ IsSpaceAt(s, p + 1)

\* /^\d+\.\s/m
OrderedPattern(s) ==
  \E p \in LineStarts(s) : \E e \in RunEnds(s, Digits, p, 1, Len(s)) :
    e < Len(s) /\ s[e + 1] = "." /\ IsSpaceAt(s, e + 1)

\* /^>\s/m
QuotePattern(s) ==
  \E p \in LineStarts(s) : p < Len(s) /\ s[p + 1] = ">" /\ IsSpaceAt(s, p + 1)

\* /`[^`]+`/m
InlineCodePattern(s) == Enclosed(s, <<BQ>>, <<BQ>>, {BQ})

\* /^```/m
FencePattern(s) == \E p \in LineStarts(s) : StartsWithAt(s, Fence, p)

\* /\[.*\]\(.*\)/m
LinkPattern(s) ==
  \E a \in 0..Len(s) : \E b \in (a + 1)..Len(s) : \E c \in (b + 2)..Len(s) :
    /\ StartsWithAt(s, <<"[">>, a)
    /\ StartsWithAt(s, <<"]", "(">>, b)
    /\ StartsWithAt(s, <<")">>, c)
    /\ DotStar(s, a + 1, b)
    /\ DotStar(s, b + 2, c)

\* /^\|.*\|/m
TablePattern(s) ==
  \E p \in LineStarts(s) : \E q \in (p + 1)..Len(s) :
    /\ StartsWithAt(s, <<"|">>, p)
    /\ StartsWithAt(s, <<"|">>, q)
    /\ DotStar(s, p + 1, q)

\* patterns.some(pattern => pattern.test(text))
hasMarkdownSyntax(text) ==
  \/ HeadingPattern(text)
  \/ BoldPattern(text)
  \/ ItalicPattern(text)
  \/ BulletPattern(text)
  \/ OrderedPattern(text)
  \/ QuotePattern(text)
  \/ InlineCodePattern(text)
  \/ FencePattern(text)
  \/ LinkPattern(text)
  \/ TablePattern(text)

\* What a call of handlePaste leaves behind.
PasteResult(ret, prevented, ran, trs) ==
  [returned |-> ret, defaultPrevented |-> prevented, conversionRan |-> ran,
   dispatched |-> trs]

\* view.state.tr.replaceSelection(slice), slice parsed from the HTML that
\* marked makes of the whole text (lines 52-81 repeat convertMarkdownToHTML
\* and the parse of the converter's branch without diagrams).
PasteTransaction(text) == [replaceSelection |-> WholeNodes(text)]

\* handlePaste with event.preventDefault() moved to its first statement.
handlePastePreventFirst(text, throws) ==
  IF text = <<>> \/ ~hasMarkdownSyntax(text)
  THEN PasteResult("not handled", TRUE, FALSE, <<>>)
  ELSE IF throws
       THEN PasteResult("not handled", TRUE, TRUE, <<>>)
       ELSE PasteResult("handled", TRUE, TRUE, <<PasteTransaction(text)>>)

\* handlePaste(view, event); throws says whether marked, the parse or the
\* replacement raises an exception inside the try block.
handlePaste(text, throws) ==
  IF text = <<>> THEN PasteResult("not handled", FALSE, FALSE, <<>>)
  ELSE IF ~hasMarkdownSyntax(text)
       THEN PasteResult("not handled", FALSE, FALSE, <<>>)
       ELSE IF throws
            THEN PasteResult("not handled", TRUE, TRUE, <<>>)
            ELSE PasteResult("handled", TRUE, TRUE, <<PasteTransaction(text)>>)

\* The pieces pasted texts are concatenated from.
PasteTokens ==
  {<<"#">>, <<"*">>, <<"-">>, <<"1", ".">>, <<">">>, <<BQ>>, Fence,
   <<"[", "]">>, <<"(", ")">>, <<"|">>, <<" ">>, <<"\n">>, <<"x">>,
   MermaidTag}

PasteInit ==
  /\ \E n \in 0..MaxPasteToks :
       \E toks \in [1..n -> PasteTokens] : clipboardText = Concat(toks, n)
  /\ pc = "paste"
  /\ defaultPrevented = FALSE
  /\ conversionRan = FALSE
  /\ dispatched = <<>>
  /\ returned = "none"
  /\ NotPasteIdle

\* One paste event delivered to the handler.
Paste ==
  /\ pc = "paste"
  /\ \E throws \in BOOLEAN : \E r \in {handlePaste(clipboardText, throws)} :
       /\ returned' = r.returned
       /\ defaultPrevented' = r.defaultPrevented
       /\ conversionRan' = r.conversionRan
       /\ dispatched' = dispatched \o r.dispatched
  /\ pc' = "pasted"
  /\ UNCHANGED <<clipboardText, notPasteVars>>

PasteNext == Paste

SpecPaste == PasteInit /\ [][PasteNext]_vars

----------------------------------------------------------------------------
(* Claims about the paste handler                                          *)

\* The loop of convertMarkdownToTipTapNodes from block k on, as a function.
RECURSIVE ConvertFrom(_, _, _, _)
ConvertFrom(md, blocks, k, cursor) ==
  IF k > Len(blocks) THEN AfterNodes(md, cursor)
  ELSE BeforeNodes(md, cursor, blocks[k])
         \o <<MermaidNode(blocks[k])>>
         \o (IF NeedsSeparator(md, blocks, k) THEN <<ParaNode>> ELSE <<>>)
         \o ConvertFrom(md, blocks, k + 1, NextCursor(blocks[k]))

\* The node list convertMarkdownToTipTapNodes(md, schema) returns.
convertMarkdownToTipTapNodes(md) ==
  IF extractMermaidBlocks(md) = <<>> THEN WholeNodes(md)
  ELSE IF \E k \in 1..Len(extractMermaidBlocks(md)) : extractMermaidBlocks(md)[k].content = <<>>
       THEN Thrown
  ELSE ConvertFrom(md, extractMermaidBlocks(md), 1, 0)

Pasted == pc = "pasted"

\* The sniffer accepted the pasted text.
Accepted == clipboardText # <<>> /\ hasMarkdownSyntax(clipboardText)

\* C13: a paste that is handled replaced the selection, in one transaction,
\* by the node list the converter makes of the pasted text, so each mermaid
\* segment is one diagram node and its content is never delegated.
C13_PasteRunsConverter ==
  (Pasted /\ returned = "handled") =>
    dispatched =
      <<[replaceSelection |-> convertMarkdownToTipTapNodes(clipboardText)]>>

\* C14: whenever the handler reports "not handled", it has dispatched no
\* edit and the event's default has not been prevented.
C14_NotHandledLeavesDefault ==
  (Pasted /\ returned = "not handled") =>
    /\ dispatched = <<>>
    /\ ~defaultPrevented

\* C15: when the text is empty or the sniffer rejects it, the handler
\* reports "not handled", has not prevented the default, has run no
\* conversion and has dispatched nothing.
C15_RejectedPasteTouchesNothing ==
  (Pasted /\ ~Accepted) =>
    /\ returned = "not handled"
    /\ ~defaultPrevented
    /\ ~conversionRan
    /\ dispatched = <<>>

\* A non-empty text without Markdown syntax has been pasted and rejected.
C15_Witness ==
  /\ Pasted
  /\ clipboardText # <<>>
  /\ ~hasMarkdownSyntax(clipboardText)
  /\ returned = "not handled"

----------------------------------------------------------------------------
(* DOM nodes and the two serializers: domToMarkdown of the copy extension  *)
(* (src/unnamed/part_000) and htmlToMarkdown of src/src/hooks/useTabs.ts   *)

\* A text node, and an element with its class, its href and its child nodes.
TextNode(t) ==
  [tag |-> "#text", cls |-> <<>>, href |-> <<>>, text |-> t, kids |-> <<>>]

Element(tag, cls, href, kids) ==
  [tag |-> tag, cls |-> cls, href |-> href, text |-> <<>>, kids |-> kids]

\* node.textContent
RECURSIVE textContent(_), TextOfNodes(_)
TextOfNodes(nodes) ==
  IF nodes = <<>> THEN <<>>
  ELSE textContent(Head(nodes)) \o TextOfNodes(Tail(nodes))

textContent(node) ==
  IF node.tag = "#text" THEN node.text ELSE TextOfNodes(node.kids)

\* The elements below nodes whose tag is one of tags, in document order.
RECURSIVE Descendants(_, _)
Descendants(nodes, tags) ==
  IF nodes = <<>> THEN <<>>
  ELSE (IF Head(nodes).tag \in tags THEN <<Head(nodes)>> ELSE <<>>)
         \o Descendants(Head(nodes).kids, tags)
         \o Descendants(Tail(nodes), tags)

\* el.querySelectorAll(selector) for a selector that lists tag names
querySelectorAll(el, tags) == Descendants(el.kids, tags)

\* el.querySelectorAll(':scope > li')
ScopeLi(el) == SelectSeq(el.kids, LAMBDA k : k.tag = "li")

\* \w
WordChars ==
  {"a", "b", "c", "d", "e", "f", "g", "h", "i", "j", "k", "l", "m", "n", "o",
   "p", "q", "r", "s", "t", "u", "v", "w", "x", "y", "z", "A", "B", "C", "D",
   "E", "F", "G", "H", "I", "J", "K", "L", "M", "N", "O", "P", "Q", "R", "S",
   "T", "U", "V", "W", "X", "Y", "Z", "_"} \cup Digits

LanguagePrefix == <<"l", "a", "n", "g", "u", "a", "g", "e", "-">>

\* The greatest element of a non-empty set of integers.
Greatest(S) == CHOOSE x \in S : \A y \in S : y <= x

\* className.match(/language-(\w+)/)?.[1] || ''
Language(cls) ==
  LET hits == {p \in 0..Len(cls) :
                 /\ StartsWithAt(cls, LanguagePrefix, p)
                 /\ RunEnds(cls, WordChars, p + Len(LanguagePrefix), 1, Len(cls)) # {}}
  IN  IF hits = {} THEN <<>>
      ELSE LET p == CHOOSE x \in hits : \A y \in hits : x <= y
               a == p + Len(LanguagePrefix)
           IN  Substring(cls, a, Greatest(RunEnds(cls, WordChars, a, 1, Len(cls))))

\* `${n}` for a positive integer
RECURSIVE DecimalString(_)
DecimalString(n) ==
  LET digit == <<"0", "1", "2", "3", "4", "5", "6", "7", "8", "9">>[(n % 10) + 1]
  IN  IF n < 10 THEN <<digit>> ELSE DecimalString(n \div 10) \o <<digit>>

NL == <<"\n">>

HeadingTags == {"h1", "h2", "h3", "h4", "h5", "h6"}

\* The run of # that a heading tag stands for.
Hashes(tag) ==
  CASE tag = "h1" -> <<"#">>
    [] tag = "h2" -> <<"#", "#">>
    [] tag = "h3" -> <<"#", "#", "#">>
    [] tag = "h4" -> <<"#", "#", "#", "#">>
    [] tag = "h5" -> <<"#", "#", "#", "#", "#">>
    [] tag = "h6" -> <<"#", "#", "#", "#", "#", "#">>

\* lines.forEach(line => markdown += prefix + line + '\n')
RECURSIVE EachLine(_, _)
EachLine(lines, prefix) ==
  IF lines = <<>> THEN <<>>
  ELSE prefix \o Head(lines) \o NL \o EachLine(Tail(lines), prefix)

\* cells.map(cell => cell.textContent?.trim() || ''), as a list of strings
RECURSIVE CellTexts(_)
CellTexts(cells) ==
  IF cells = <<>> THEN <<>>
  ELSE <<Trim(textContent(Head(cells)))>> \o CellTexts(Tail(cells))

\* cells.map(() => '---')
RECURSIVE Dashes(_)
Dashes(cells) ==
  IF cells = <<>> THEN <<>> ELSE <<(<<"-", "-", "-">>)>> \o Dashes(Tail(cells))

\* `| ${texts.join(' | ')} |`
PipeRow(texts) == <<"|", " ">> \o Join(texts, <<" ", "|", " ">>) \o <<" ", "|">>

\* domToMarkdown: the table case, rows from index idx (0-based) on
RECURSIVE CopyTableRows(_, _)
CopyTableRows(rows, idx) ==
  IF rows = <<>> THEN <<>>
  ELSE LET cells == querySelectorAll(Head(rows), {"td", "th"})
       IN  PipeRow(CellTexts(cells)) \o NL
             \o (IF idx = 0 THEN PipeRow(Dashes(cells)) \o NL ELSE <<>>)
             \o CopyTableRows(Tail(rows), idx + 1)

\* domToMarkdown(element): the Markdown of the child nodes of element
RECURSIVE domToMarkdown(_), DomNode(_, _), DomNodes(_, _), DomItems(_, _, _)
DomNodes(nodes, parentTag) ==
  IF nodes = <<>> THEN <<>>
  ELSE DomNode(Head(nodes), parentTag) \o DomNodes(Tail(nodes), parentTag)

\* The ul and ol cases: one line for each li, numbered from idx when ordered
DomItems(items, ordered, idx) ==
  IF items = <<>> THEN <<>>
  ELSE (IF ordered THEN DecimalString(idx) \o <<".", " ">> ELSE <<"-", " ">>)
         \o Trim(domToMarkdown(Head(items))) \o NL
         \o DomItems(Tail(items), ordered, idx + 1)

\* One iteration of element.childNodes.forEach: the switch on the tag
DomNode(el, parentTag) ==
  CASE el.tag = "#text" -> el.text
    [] el.tag \in HeadingTags ->
         Hashes(el.tag) \o <<" ">> \o textContent(el) \o NL \o NL
    [] el.tag \in {"strong", "b"} ->
         <<"*", "*">> \o textContent(el) \o <<"*", "*">>
    [] el.tag \in {"em", "i"} -> <<"*">> \o textContent(el) \o <<"*">>
    [] el.tag = "code" ->
         IF parentTag = "pre"
         THEN Fence \o NL \o textContent(el) \o NL \o Fence \o NL \o NL
         ELSE <<BQ>> \o textContent(el) \o <<BQ>>
    [] el.tag = "pre" ->
         LET codes == querySelectorAll(el, {"code"})
         IN  IF codes # <<>>
             THEN Fence \o Language(codes[1].cls) \o NL \o textContent(codes[1])
                    \o NL \o Fence \o NL \o NL
             ELSE Fence \o NL \o textContent(el) \o NL \o Fence \o NL \o NL
    [] el.tag = "blockquote" ->
         EachLine(Split(Trim(domToMarkdown(el)), NL), <<">", " ">>) \o NL
    [] el.tag = "ul" -> DomItems(ScopeLi(el), FALSE, 1) \o NL
    [] el.tag = "ol" -> DomItems(ScopeLi(el), TRUE, 1) \o NL
    [] el.tag = "li" -> Trim(domToMarkdown(el))
    [] el.tag = "a" ->
         <<"[">> \o textContent(el) \o <<"]", "(">> \o el.href \o <<")">>
    [] el.tag = "p" ->
         IF Trim(domToMarkdown(el)) # <<>>
         THEN Trim(domToMarkdown(el)) \o NL \o NL ELSE <<>>
    [] el.tag = "hr" -> <<"-", "-", "-">> \o NL \o NL
    [] el.tag = "br" -> NL
    [] el.tag = "table" -> CopyTableRows(querySelectorAll(el, {"tr"}), 0) \o NL
    [] OTHER -> domToMarkdown(el)

domToMarkdown(element) == DomNodes(element.kids, element.tag)

\* htmlToMarkdown: the table case, one string for each row
RECURSIVE SaveTableRows(_)
SaveTableRows(rows) ==
  IF rows = <<>> THEN <<>>
  ELSE <<PipeRow(CellTexts(querySelectorAll(Head(rows), {"td", "th"})))>>
         \o SaveTableRows(Tail(rows))

\* lines.map(line => prefix + line)
RECURSIVE MapPrefix(_, _)
MapPrefix(lines, prefix) ==
  IF lines = <<>> THEN <<>>
  ELSE <<prefix \o Head(lines)>> \o MapPrefix(Tail(lines), prefix)

\* processNode of htmlToMarkdown, and Array.from(childNodes).map(processNode).join('')
RECURSIVE processNode(_, _), ProcessNodes(_, _), ProcessItems(_, _, _)
ProcessNodes(nodes, parentTag) ==
  IF nodes = <<>> THEN <<>>
  ELSE processNode(Head(nodes), parentTag) \o ProcessNodes(Tail(nodes), parentTag)

\* The ul and ol cases: one string for each li
ProcessItems(items, ordered, idx) ==
  IF items = <<>> THEN <<>>
  ELSE <<(IF ordered THEN DecimalString(idx) \o <<".", " ">> ELSE <<"-", " ">>)
           \o Trim(ProcessNodes(Head(items).kids, "li"))>>
         \o ProcessItems(Tail(items), ordered, idx + 1)

processNode(el, parentTag) ==
  CASE el.tag = "#text" -> el.text
    [] el.tag \in HeadingTags ->
         Hashes(el.tag) \o <<" ">> \o textContent(el) \o NL \o NL
    [] el.tag \in {"strong", "b"} ->
         <<"*", "*">> \o textContent(el) \o <<"*", "*">>
    [] el.tag \in {"em", "i"} -> <<"*">> \o textContent(el) \o <<"*">>
    [] el.tag = "code" ->
         IF parentTag = "pre"
         THEN Fence \o textContent(el) \o Fence \o NL \o NL
         ELSE <<BQ>> \o textContent(el) \o <<BQ>>
    [] el.tag = "pre" ->
         LET codes == querySelectorAll(el, {"code"})
         IN  IF codes # <<>>
             THEN Fence \o Language(codes[1].cls) \o NL \o textContent(codes[1])
                    \o Fence \o NL \o NL
             ELSE Fence \o NL \o textContent(el) \o Fence \o NL \o NL
    [] el.tag = "blockquote" ->
         Join(MapPrefix(Split(Trim(ProcessNodes(el.kids, el.tag)), NL), <<">", " ">>), NL)
           \o NL \o NL
    [] el.tag = "ul" -> Join(ProcessItems(ScopeLi(el), FALSE, 1), NL) \o NL \o NL
    [] el.tag = "ol" -> Join(ProcessItems(ScopeLi(el), TRUE, 1), NL) \o NL \o NL
    [] el.tag = "li" -> Trim(ProcessNodes(el.kids, el.tag))
    [] el.tag = "a" ->
         <<"[">> \o textContent(el) \o <<"]", "(">> \o el.href \o <<")">>
    [] el.tag = "p" -> Trim(ProcessNodes(el.kids, el.tag)) \o NL \o NL
    [] el.tag = "hr" -> <<"-", "-", "-">> \o NL \o NL
    [] el.tag = "br" -> NL
    [] el.tag = "table" ->
         Join(SaveTableRows(querySelectorAll(el, {"tr"})), NL) \o NL \o NL
    [] OTHER -> ProcessNodes(el.kids, el.tag)

\* htmlToMarkdown(html), html being the serialization of the nodes of div
htmlToMarkdown(div) == Trim(ProcessNodes(div.kids, div.tag))

\* The text of a text node as innerHTML writes it.
RECURSIVE EscapeText(_)
EscapeText(t) ==
  IF t = <<>> THEN <<>>
  ELSE (CASE Head(t) = "&" -> <<"&amp;">>
          [] Head(t) = "<" -> <<"&lt;">>
          [] Head(t) = ">" -> <<"&gt;">>
          [] OTHER -> <<Head(t)>>) \o EscapeText(Tail(t))

\* name="value", when the attribute is set
Attribute(name, value) ==
  IF value = <<>> THEN <<>> ELSE <<" ", name, "=", "\"">> \o value \o <<"\"">>

\* div.innerHTML: the HTML serialization of nodes; markup is written as
\* whole tokens ("<", the tag name, ...), text character by character.
RECURSIVE innerHTML(_)
innerHTML(nodes) ==
  IF nodes = <<>> THEN <<>>
  ELSE LET n == Head(nodes)
       IN  (IF n.tag = "#text" THEN EscapeText(n.text)
            ELSE <<"<", n.tag>> \o Attribute("class", n.cls)
                   \o Attribute("href", n.href) \o <<">">>
                   \o (IF n.tag \in {"hr", "br"} THEN <<>>
                       ELSE innerHTML(n.kids) \o <<"</", n.tag, ">">>))
             \o innerHTML(Tail(nodes))

\* document.createElement('div') holding nodes
Div(nodes) == Element("div", <<>>, <<>>, nodes)

\* state.doc.slice(from, to).content serialized by the schema's DOMSerializer
Selected(d, sel) == SubSeq(d, sel.from + 1, sel.to)

\* What a call of the copy handler leaves behind.
CopyResult(ret, prevented, plain, html) ==
  [returned |-> ret, prevented |-> prevented,
   clipboard |-> [plain |-> plain, html |-> html]]

\* The copy handler with only the text/plain representation set.
handleCopyPlainOnly(d, sel, throws) ==
  IF ~sel.present \/ sel.from = sel.to
  THEN CopyResult("not handled", FALSE, Unset, Unset)
  ELSE IF throws
       THEN CopyResult("not handled", TRUE, Unset, Unset)
       ELSE CopyResult("handled", TRUE,
                       Trim(domToMarkdown(Div(Selected(d, sel)))), Unset)

\* copy: (view, event) => ...; throws says whether the serialization raises
\* an exception inside the try block.
handleCopy(d, sel, throws) ==
  IF ~sel.present THEN CopyResult("not handled", FALSE, Unset, Unset)
  ELSE IF sel.from = sel.to
       THEN CopyResult("not handled", FALSE, Unset, Unset)
       ELSE IF throws
            THEN CopyResult("not handled", TRUE, Unset, Unset)
            ELSE CopyResult("handled", TRUE,
                            Trim(domToMarkdown(Div(Selected(d, sel)))),
                            innerHTML(Selected(d, sel)))

----------------------------------------------------------------------------
(* Documents, and the state machine of copying from and saving a document  *)

MaxBlocks == 2

LanguageMermaid == LanguagePrefix \o MermaidTag

\* MermaidBlock.renderHTML: div.mermaid-block > pre.mermaid-source >
\* code.language-mermaid > the node's text
DiagramElement(sourceText) ==
  Element("div", <<"m", "e", "r", "m", "a", "i", "d", "-", "b", "l", "o", "c", "k">>, <<>>,
    <<Element("pre", <<"m", "e", "r", "m", "a", "i", "d", "-", "s", "o", "u", "r", "c", "e">>, <<>>,
        <<Element("code", LanguageMermaid, <<>>,
            IF sourceText = <<>> THEN <<>> ELSE <<TextNode(sourceText)>>)>>)>>)

\* A code block node as the editor renders it: pre > code[.language-x] > text
CodeBlockElement(language, text) ==
  Element("pre", <<>>, <<>>,
    <<Element("code",
              IF language = <<>> THEN <<>> ELSE LanguagePrefix \o language,
              <<>>, <<TextNode(text)>>)>>)

\* A paragraph holding inline nodes.
Paragraph(inline) == Element("p", <<>>, <<>>, inline)

\* A cell: th or td > p > text
Cell(tag, t) == Element(tag, <<>>, <<>>, <<Paragraph(<<TextNode(t)>>)>>)

\* A table node as the editor renders it: table > tbody > tr > th | td
TableElement(rows) == Element("table", <<>>, <<>>, <<Element("tbody", <<>>, <<>>, rows)>>)

Row(cells) == Element("tr", <<>>, <<>>, cells)

ListItem(t) == Element("li", <<>>, <<>>, <<Paragraph(<<TextNode(t)>>)>>)

\* The top-level elements documents are made of.
DocBlocks ==
  {DiagramElement(PieWord),
   DiagramElement(<<"A", "\n", "B">>),
   CodeBlockElement(<<"j", "s">>, <<"x">>),
   CodeBlockElement(<<>>, <<"x", "\n", "y">>),
   Element("pre", <<>>, <<>>, <<TextNode(<<"x">>)>>),
   TableElement(<<Row(<<Cell("th", <<"a">>)>>)>>),
   TableElement(<<Row(<<Cell("th", <<"a">>), Cell("th", <<"b">>)>>),
                  Row(<<Cell("td", <<" ", "c">>), Cell("td", <<"d">>)>>)>>),
   Paragraph(<<TextNode(<<"x">>)>>),
   Paragraph(<<>>),
   Paragraph(<<Element("strong", <<>>, <<>>, <<TextNode(<<"x">>)>>),
               Element("em", <<>>, <<>>, <<TextNode(<<"y">>)>>),
               Element("code", <<>>, <<>>, <<TextNode(<<"z">>)>>),
               Element("br", <<>>, <<>>, <<>>),
               Element("a", <<>>, <<"u">>, <<TextNode(<<"l">>)>>)>>),
   Element("h1", <<>>, <<>>, <<TextNode(<<"x">>)>>),
   Element("h3", <<>>, <<>>, <<TextNode(<<"x">>)>>),
   Element("blockquote", <<>>, <<>>,
           <<Paragraph(<<TextNode(<<"x">>)>>), Paragraph(<<TextNode(<<"y">>)>>)>>),
   Element("ul", <<>>, <<>>, <<ListItem(<<"x">>), ListItem(<<"y">>)>>),
   Element("ol", <<>>, <<>>, <<ListItem(<<"x">>), ListItem(<<"y">>)>>),
   Element("hr", <<>>, <<>>, <<>>)}

SerializeInit ==
  /\ \E n \in 0..MaxBlocks : doc \in [1..n -> DocBlocks]
  /\ \E a \in 0..Len(doc) : \E b \in a..Len(doc) :
       selection = [present |-> TRUE, from |-> a, to |-> b]
  /\ pc = "editing"
  /\ copyPrevented = FALSE
  /\ copyReturned = "none"
  /\ clipboard = [plain |-> Unset, html |-> Unset]
  /\ saved = Unset
  /\ NotSerializeIdle

\* One copy event delivered to the handler.
Copy ==
  /\ pc = "editing"
  /\ \E throws \in BOOLEAN : \E r \in {handleCopy(doc, selection, throws)} :
       /\ copyReturned' = r.returned
       /\ copyPrevented' = r.prevented
       /\ clipboard' = r.clipboard
  /\ pc' = "copied"
  /\ UNCHANGED <<doc, selection, saved, notSerializeVars>>

\* handleSaveFile: const markdown = htmlToMarkdown(activeTab.content);
\* saveFile(filePath, markdown, false)
Save ==
  /\ pc = "editing"
  /\ saved' = htmlToMarkdown(Div(doc))
  /\ pc' = "saved"
  /\ UNCHANGED <<doc, selection, copyPrevented, copyReturned, clipboard,
                 notSerializeVars>>

SerializeNext == Copy \/ Save

SpecSerialize == SerializeInit /\ [][SerializeNext]_vars

----------------------------------------------------------------------------
(* Claims about the copy handler and the serializers                       *)

Copied == pc = "copied"

Saved == pc = "saved"

\* pat occurs in s
Contains(s, pat) == IndexOf(s, pat, 0) # -1

IsDiagramElement(el) == el.tag = "div" /\ Contains(el.cls, MermaidTag)

IsCodeBlockElement(el) ==
  el.tag = "pre" /\ el.kids # <<>> /\ el.kids[1].tag = "code"

IsTableElement(el) == el.tag = "table"

\* The nodes a serializer was given, and the Markdown it produced.
SerializedNodes == IF Copied THEN Selected(doc, selection) ELSE doc

SerializedText == IF Copied THEN clipboard.plain ELSE saved

SerializerRan == (Copied /\ copyReturned = "handled") \/ Saved

\* fence, 'mermaid', newline, sourceText, newline, fence
DiagramFence(sourceText) ==
  Fence \o MermaidTag \o NL \o sourceText \o NL \o Fence

\* C18: in the output of either serializer every diagram node appears as a
\* fence whose first line is exactly 'mermaid', followed by a newline, the
\* node's source text, a newline and the closing fence.
C18_DiagramSerializedAsMermaidFence ==
  SerializerRan =>
    \A k \in 1..Len(SerializedNodes) :
      IsDiagramElement(SerializedNodes[k]) =>
        Contains(SerializedText, DiagramFence(textContent(SerializedNodes[k])))

\* The language attribute of a rendered code block (empty when it has none).
CodeLanguage(el) ==
  IF el.kids[1].cls = <<>> THEN <<>>
  ELSE Substring(el.kids[1].cls, Len(LanguagePrefix), Len(el.kids[1].cls))

\* fence, language, newline, raw text, newline, fence, two newlines
CodeFence(language, text) ==
  Fence \o language \o NL \o text \o NL \o Fence \o NL \o NL

\* C19: in the output of either serializer every code block appears as
\* opening fence, optional language tag, newline, raw text, newline, closing
\* fence and two newlines (the final trim may remove the last two).
C19_CodeBlockFormat ==
  SerializerRan =>
    \A k \in 1..Len(SerializedNodes) :
      IsCodeBlockElement(SerializedNodes[k]) =>
        Contains(SerializedText \o NL \o NL,
                 CodeFence(CodeLanguage(SerializedNodes[k]),
                           textContent(SerializedNodes[k])))

\* The header row of a rendered table, and its lines in Markdown.
HeaderCells(el) == querySelectorAll(el, {"tr"})[1].kids

HeaderLine(el) == PipeRow(CellTexts(HeaderCells(el)))

SeparatorLine(el) == PipeRow(Dashes(HeaderCells(el)))

\* The line consists of pipe-delimited '---' cells only.
IsSeparatorLine(line) ==
  \E n \in 1..Len(line) : line = PipeRow([c \in 1..n |-> <<"-", "-", "-">>])

\* C20: in the output of either serializer every table has its header row
\* followed at once by one separator line with '---' once per column, and
\* there is exactly one separator line for each table.
C20_TableSeparatorAfterHeader ==
  SerializerRan =>
    /\ \A k \in 1..Len(SerializedNodes) :
         IsTableElement(SerializedNodes[k]) =>
           Contains(SerializedText \o NL,
                    HeaderLine(SerializedNodes[k]) \o NL
                      \o SeparatorLine(SerializedNodes[k]) \o NL)
    /\ Cardinality({n \in 1..Len(LinesOf(SerializedText)) :
                      IsSeparatorLine(LinesOf(SerializedText)[n])})
         = Cardinality({k \in 1..Len(SerializedNodes) :
                          IsTableElement(SerializedNodes[k])})

----------------------------------------------------------------------------
(* Round trip: convert a document, render the tree, serialize it with      *)
(* either serializer, scan the result again                                *)

MaxItems == 3

\* Offsets where ^\s* can end in a line.
LeadingSpaceEnds(line) ==
  {p \in 0..Len(line) : \A k \in 1..p : line[k] \in WhiteSpace}

\* The six patterns of hasBlockSyntax, tested on one line.
LineHasBlockSyntax(line) ==
  \/ \E e \in RunEnds(line, {"#"}, 0, 1, 6) : IsSpaceAt(line, e)
  \/ \E p \in LeadingSpaceEnds(line) :
       \/ p < Len(line) /\ line[p + 1] \in {"-", "*", "+"} /\ IsSpaceAt(line, p + 1)
       \/ \E e \in RunEnds(line, Digits, p, 1, Len(line)) :
            e < Len(line) /\ line[e + 1] = "." /\ IsSpaceAt(line, e + 1)
       \/ p < Len(line) /\ line[p + 1] = ">" /\ IsSpaceAt(line, p + 1)
       \/ StartsWithAt(line, Fence, p)
       \/ \E q \in (p + 1)..Len(line) :
            /\ StartsWithAt(line, <<"|">>, p)
            /\ StartsWithAt(line, <<"|">>, q)
            /\ DotStar(line, p + 1, q)

\* markdownText.split('\n').filter(line => line.trim())
FilteredLines(text) == SelectSeq(Split(text, NL), LAMBDA line : Trim(line) # <<>>)

\* ![](u): an image with empty alternative text
ImageSyntax == <<"!", "[", "]", "(", "u", ")">>

\* marked(line) for a line of plain text or an image, parsed and rendered:
\* one paragraph, holding the text or the img element.
MarkedLine(line) ==
  IF Trim(line) = ImageSyntax
  THEN Paragraph(<<Element("img", <<>>, <<"u">>, <<>>)>>)
  ELSE Paragraph(<<TextNode(Trim(line))>>)

\* lines.map(line => marked(line)).join('')
RECURSIVE MarkedLines(_)
MarkedLines(lines) ==
  IF lines = <<>> THEN <<>>
  ELSE <<MarkedLine(Head(lines))>> \o MarkedLines(Tail(lines))

\* marked(text) for a text whose non-blank lines are set apart by blank
\* lines, each of them plain text or an image: one paragraph for each.
Marked(text) == MarkedLines(FilteredLines(text))

\* convertMarkdownToHTML(markdownText), parsed with the schema and rendered
convertMarkdownToHTML(text) ==
  IF Len(FilteredLines(text)) > 1
       /\ ~\E k \in 1..Len(FilteredLines(text)) :
             LineHasBlockSyntax(FilteredLines(text)[k])
  THEN MarkedLines(FilteredLines(text))
  ELSE Marked(text)

\* The rendered DOM of the nodes of a converted tree.
RECURSIVE Rendered(_)
Rendered(nodes) ==
  IF nodes = <<>> THEN <<>>
  ELSE (CASE Head(nodes).type = "mermaidBlock" ->
               <<DiagramElement(Head(nodes).content)>>
          [] Head(nodes).type = "paragraph" -> <<Paragraph(<<>>)>>
          [] Head(nodes).type = "std" -> convertMarkdownToHTML(Head(nodes).src))
         \o Rendered(Tail(nodes))

\* The pieces round-trip documents are concatenated from: two diagram
\* fences, a paragraph, a paragraph that reads 'mermaid', an image.
DocumentItems ==
  {Fence \o MermaidTag \o NL \o PieWord \o NL \o Fence \o NL,
   Fence \o MermaidTag \o NL \o <<"A", "\n", "B">> \o NL \o Fence \o NL,
   <<"x">> \o NL \o NL,
   Fence \o MermaidTag \o NL \o Fence \o NL,
   MermaidTag \o NL \o NL,
   ImageSyntax \o NL \o NL}

RoundTripInit ==
  /\ \E n \in 0..MaxItems :
       \E toks \in [1..n -> DocumentItems] : markdownText = Concat(toks, n)
  /\ pc = "start"
  /\ mermaidBlocks = <<>>
  /\ i = 0
  /\ lastIndex = 0
  /\ contentNodes = <<>>
  /\ ClassifyIdle
  /\ PasteIdle
  /\ SerializeIdle
  /\ RoundTripIdle
  /\ AppIdle

\* The returned nodes become the editor's document.
Render ==
  /\ pc = "done"
  /\ doc' = Rendered(contentNodes)
  /\ pc' = "rendered"
  /\ UNCHANGED <<convertVars, classifyVars, pasteVars, roundTripVars, appVars,
                 selection, copyPrevented, copyReturned, clipboard, saved>>

\* The copy path: domToMarkdown(div).trim() of the whole document
SerializeCopy ==
  /\ pc = "rendered"
  /\ serialized' = Trim(domToMarkdown(Div(doc)))
  /\ pc' = "serialized"
  /\ UNCHANGED <<convertVars, classifyVars, pasteVars, serializeVars, appVars, rescanned>>

\* The save path: htmlToMarkdown(editor.getHTML())
SerializeSave ==
  /\ pc = "rendered"
  /\ serialized' = htmlToMarkdown(Div(doc))
  /\ pc' = "serialized"
  /\ UNCHANGED <<convertVars, classifyVars, pasteVars, serializeVars, appVars, rescanned>>

\* extractMermaidBlocks on the serialized text
Rescan ==
  /\ pc = "serialized"
  /\ rescanned' = extractMermaidBlocks(serialized)
  /\ pc' = "rescanned"
  /\ UNCHANGED <<convertVars, classifyVars, pasteVars, serializeVars, appVars, serialized>>

RoundTripNext ==
  \/ Extract
  \/ ConvertWhole
  \/ ConvertThrows
  \/ ConvertBlock
  \/ ConvertTail
  \/ Render
  \/ SerializeCopy
  \/ SerializeSave
  \/ Rescan

SpecRoundTrip == RoundTripInit /\ [][RoundTripNext]_vars

----------------------------------------------------------------------------
(* Claim about the round trip                                              *)

\* The content values of a list of segments, in order.
Contents(blocks) == [k \in 1..Len(blocks) |-> blocks[k].content]

\* C17: for a document in which the scanner finds diagram segments, scanning
\* the serialization of its converted tree (by either serializer) finds the
\* same number of segments with the same content values in the same order.
C17_RoundTripKeepsSegments ==
  (pc = "rescanned" /\ mermaidBlocks # <<>>) =>
    Contents(rescanned) = Contents(mermaidBlocks)

----------------------------------------------------------------------------
(* Claim about quoted blocks                                               *)

\* The serialization of the children of a quoted block by the serializer
\* that ran.
QuotedChildren(el) ==
  IF Copied THEN Trim(domToMarkdown(el)) ELSE Trim(ProcessNodes(el.kids, el.tag))

\* Each non-empty line prefixed with '> ', empty lines left as they are.
RECURSIVE PrefixNonEmpty(_)
PrefixNonEmpty(lines) ==
  IF lines = <<>> THEN <<>>
  ELSE <<(IF Head(lines) = <<>> THEN <<>> ELSE <<">", " ">> \o Head(lines))>>
         \o PrefixNonEmpty(Tail(lines))

\* C21: in the output of either serializer a quoted block appears as the
\* lines of its serialized children, each non-empty line prefixed with '> '
\* and each empty line without prefix.
C21_QuotePrefixesNonEmptyLines ==
  SerializerRan =>
    \A k \in 1..Len(SerializedNodes) :
      SerializedNodes[k].tag = "blockquote" =>
        Contains(SerializedText,
                 Join(PrefixNonEmpty(Split(QuotedChildren(SerializedNodes[k]), NL)), NL))

----------------------------------------------------------------------------
(* useTabs: the open files of the application                              *)

\* The number of tab ids Date.now() hands out in a run.
MaxIds == 2

\* What the editor reports through onChange after the user typed.
EditContents == {<<[type |-> "typed", n |-> 1]>>, <<[type |-> "typed", n |-> 2]>>}

\* A diagram fence: the text of a file holding one diagram.
DiagramFile == Fence \o MermaidTag \o <<"\n">> \o PieWord \o <<"\n">> \o Fence

\* The texts readFile can return (an empty one counts as a failure).
FileTexts == {<<"x">>, DiagramFile}

\* fileExtension === 'md' || fileExtension === 'markdown'
IsMarkdownPath(path) == path = "a.md"

\* tabs.find(tab => tab.id === id): its index, 0 when there is none
TabIndex(ts, id) ==
  IF \E k \in 1..Len(ts) : ts[k].id = id
  THEN CHOOSE k \in 1..Len(ts) : ts[k].id = id /\ \A j \in 1..(k - 1) : ts[j].id # id
  ELSE 0

\* tabs.find(tab => tab.path === path)
PathIndex(ts, path) ==
  IF \E k \in 1..Len(ts) : ts[k].path = path
  THEN CHOOSE k \in 1..Len(ts) : ts[k].path = path /\ \A j \in 1..(k - 1) : ts[j].path # path
  ELSE 0

HasActiveTab == TabIndex(tabs, activeTabId) # 0

activeTab == tabs[TabIndex(tabs, activeTabId)]

\* if (activeTab && activeTab.isModified) { if (!confirm(...)) return }
\* The handler goes on when there is nothing to lose or the user agrees.
MayDiscard(confirmed) == (HasActiveTab /\ activeTab.isModified) => confirmed

\* The tab createNewTab builds.
NewTab(tabContent, path) ==
  [id |-> now, path |-> path, content |-> tabContent, isModified |-> FALSE]

\* createNewTab: setTabs(prev => [...prev, newTab]); setActiveTabId(newTab.id)
createNewTab(tabContent, path) ==
  /\ now <= MaxIds
  /\ tabs' = Append(tabs, NewTab(tabContent, path))
  /\ activeTabId' = now
  /\ now' = now + 1

\* prev.map(tab => tab.id === tabId ? { ...tab, content, isModified: true } : tab)
updateTabContent(ts, tabId, tabContent) ==
  [k \in 1..Len(ts) |->
     IF ts[k].id = tabId
     THEN [ts[k] EXCEPT !.content = tabContent, !.isModified = TRUE]
     ELSE ts[k]]

\* prev.map(tab => tab.id === tabId ? { ...tab, isModified: false, path } : tab)
markTabSaved(ts, tabId, path) ==
  [k \in 1..Len(ts) |->
     IF ts[k].id = tabId
     THEN [ts[k] EXCEPT !.isModified = FALSE, !.path = path]
     ELSE ts[k]]

\* tabs.filter(t => t.id !== tabId)
RECURSIVE WithoutTab(_, _)
WithoutTab(ts, tabId) ==
  IF ts = <<>> THEN <<>>
  ELSE (IF Head(ts).id = tabId THEN <<>> ELSE <<Head(ts)>>) \o WithoutTab(Tail(ts), tabId)

\* marked(content): the whole text of the file goes to the standard converter
OpenedContent(path, text) ==
  IF IsMarkdownPath(path) THEN StdNodes(text, 0, Len(text))
  ELSE <<[type |-> "raw", src |-> text]>>

NotAnOpen == lastRead' = [path |-> NoPath, text |-> <<>>]

NotAClose == closedId' = 0

TabsInit ==
  /\ pc = "mount"
  /\ TabsIdle
  /\ HeadingsIdle
  /\ ViewIdle
  /\ CompareIdle
  /\ ConvertIdle
  /\ ClassifyIdle
  /\ PasteIdle
  /\ SerializeIdle
  /\ RoundTripIdle

\* useEffect(() => { if (tabs.length === 0) handleNewFile() }, [])
Mount ==
  /\ pc = "mount"
  /\ createNewTab(<<>>, NoPath)
  /\ pc' = "tabs"
  /\ UNCHANGED <<synced, saving, lastRead, closedId>>

\* handleNewFile
NewFile ==
  /\ pc = "tabs"
  /\ \E confirmed \in BOOLEAN : MayDiscard(confirmed)
  /\ createNewTab(<<>>, NoPath)
  /\ NotAnOpen
  /\ NotAClose
  /\ UNCHANGED <<pc, synced, saving>>

\* handleContentChange: updateTabContent(activeTab.id, newContent)
EditContent ==
  /\ pc = "tabs"
  /\ HasActiveTab
  /\ \E c \in EditContents : tabs' = updateTabContent(tabs, activeTab.id, c)
  /\ NotAnOpen
  /\ NotAClose
  /\ UNCHANGED <<pc, activeTabId, now, synced, saving>>

\* handleTabClick(tabId)
TabClick ==
  /\ pc = "tabs"
  /\ \E k \in 1..Len(tabs) : activeTabId' = tabs[k].id
  /\ NotAnOpen
  /\ NotAClose
  /\ UNCHANGED <<pc, tabs, now, synced, saving>>

\* handleOpenFile, the file already open: setActiveTabId(existingTab.id)
OpenExisting ==
  /\ pc = "tabs"
  /\ \E confirmed \in BOOLEAN : MayDiscard(confirmed)
  /\ \E path \in Paths :
       /\ PathIndex(tabs, path) # 0
       /\ activeTabId' = tabs[PathIndex(tabs, path)].id
  /\ NotAnOpen
  /\ NotAClose
  /\ UNCHANGED <<pc, tabs, now, synced, saving>>

\* handleOpenFile, a file not yet open: read it, convert it, createNewTab
OpenFile ==
  /\ pc = "tabs"
  /\ \E confirmed \in BOOLEAN : MayDiscard(confirmed)
  /\ \E path \in Paths : \E text \in FileTexts :
       /\ PathIndex(tabs, path) = 0
       /\ createNewTab(OpenedContent(path, text), path)
       /\ synced' = [synced EXCEPT ![path] = OpenedContent(path, text)]
       /\ lastRead' = [path |-> path, text |-> text]
  /\ NotAClose
  /\ UNCHANGED <<pc, saving>>

\* handleSaveFile up to the call of saveFile: the path (from the tab, or from
\* the save dialog) and htmlToMarkdown(activeTab.content) of the tab as the
\* handler's closure holds it
SaveStart ==
  /\ pc = "tabs"
  /\ saving.stage = "idle"
  /\ HasActiveTab
  /\ \E path \in Paths :
       /\ activeTab.path # NoPath => path = activeTab.path
       /\ saving' = [stage |-> "writing", id |-> activeTab.id, path |-> path,
                     hadPath |-> activeTab.path # NoPath,
                     content |-> activeTab.content]
  /\ NotAnOpen
  /\ NotAClose
  /\ UNCHANGED <<pc, tabs, activeTabId, now, synced>>

\* await window.electronAPI.saveFile(filePath, markdown, false) succeeds
SaveWrite ==
  /\ pc = "tabs"
  /\ saving.stage = "writing"
  /\ synced' = [synced EXCEPT ![saving.path] = saving.content]
  /\ saving' = [saving EXCEPT !.stage = "written"]
  /\ NotAnOpen
  /\ NotAClose
  /\ UNCHANGED <<pc, tabs, activeTabId, now>>

\* if (!saveResult.success) { alert(...); return null }
SaveFails ==
  /\ pc = "tabs"
  /\ saving.stage = "writing"
  /\ saving' = NoSave
  /\ NotAnOpen
  /\ NotAClose
  /\ UNCHANGED <<pc, tabs, activeTabId, now, synced>>

\* markTabSaved(activeTab.id, filePath), and for a tab that had no path the
\* setTabs that gives it the title and the path
SaveFinish ==
  /\ pc = "tabs"
  /\ saving.stage = "written"
  /\ tabs' = markTabSaved(tabs, saving.id, saving.path)
  /\ saving' = NoSave
  /\ NotAnOpen
  /\ NotAClose
  /\ UNCHANGED <<pc, activeTabId, now, synced>>

\* const nextTab = newTabs[currentIndex] || newTabs[newTabs.length - 1]
\* (currentIndex is 0-based, so the 1-based index of the closed tab names
\* the tab to its right)
NextTab(newTabs, closedIndex) ==
  IF closedIndex <= Len(newTabs) THEN newTabs[closedIndex] ELSE newTabs[Len(newTabs)]

\* handleCloseTab(tabId), a tab that is not the active one
CloseOther ==
  /\ pc = "tabs"
  /\ \E k \in 1..Len(tabs) : \E confirmed \in BOOLEAN :
       /\ tabs[k].isModified => confirmed
       /\ tabs[k].id # activeTabId
       /\ tabs' = WithoutTab(tabs, tabs[k].id)
       /\ closedId' = tabs[k].id
  /\ NotAnOpen
  /\ UNCHANGED <<pc, activeTabId, now, synced, saving>>

\* handleCloseTab(tabId), the active tab while other tabs remain
CloseActive ==
  /\ pc = "tabs"
  /\ \E confirmed \in BOOLEAN :
       /\ HasActiveTab
       /\ activeTab.isModified => confirmed
       /\ WithoutTab(tabs, activeTabId) # <<>>
       /\ activeTabId' = NextTab(WithoutTab(tabs, activeTabId), TabIndex(tabs, activeTabId)).id
       /\ tabs' = WithoutTab(tabs, activeTabId)
       /\ closedId' = activeTabId
  /\ NotAnOpen
  /\ UNCHANGED <<pc, now, synced, saving>>

\* handleCloseTab(tabId), the only tab: createNewTab(untitled) and return
CloseLast ==
  /\ pc = "tabs"
  /\ \E confirmed \in BOOLEAN :
       /\ HasActiveTab
       /\ activeTab.isModified => confirmed
       /\ WithoutTab(tabs, activeTabId) = <<>>
       /\ createNewTab(<<>>, NoPath)
       /\ closedId' = activeTabId
  /\ NotAnOpen
  /\ UNCHANGED <<pc, synced, saving>>

notTabVars == <<convertVars, classifyVars, pasteVars, serializeVars, roundTripVars, headingVars, viewVars, compareVars>>

TabsNext ==
  \/ Mount /\ UNCHANGED notTabVars
  \/ NewFile /\ UNCHANGED notTabVars
  \/ EditContent /\ UNCHANGED notTabVars
  \/ TabClick /\ UNCHANGED notTabVars
  \/ OpenExisting /\ UNCHANGED notTabVars
  \/ OpenFile /\ UNCHANGED notTabVars
  \/ SaveStart /\ UNCHANGED notTabVars
  \/ SaveWrite /\ UNCHANGED notTabVars
  \/ SaveFails /\ UNCHANGED notTabVars
  \/ SaveFinish /\ UNCHANGED notTabVars
  \/ CloseOther /\ UNCHANGED notTabVars
  \/ CloseActive /\ UNCHANGED notTabVars
  \/ CloseLast /\ UNCHANGED notTabVars

SpecTabs == TabsInit /\ [][TabsNext]_vars

----------------------------------------------------------------------------
(* Claims about the open files                                             *)

\* The last step opened a Markdown file.
OpenedMarkdown == lastRead.path # NoPath /\ IsMarkdownPath(lastRead.path)

\* C22: when a Markdown file is opened, the content of its tab is what the
\* splicing converter makes of the file's text: one diagram block per
\* segment of the scanner, and only the other spans given to the standard
\* converter.
C22_OpenSegmentsLikeConvert ==
  OpenedMarkdown =>
    activeTab.content = convertMarkdownToTipTapNodes(lastRead.text)

\* The last step was a handleCloseTab that ran to its end.
Closed == closedId # 0

\* C28: after handleCloseTab(tabId) the tab is gone from the list, the list
\* is not empty, and activeTabId names a tab of the list; this holds too
\* when the closed tab was the only one.
C28_CloseRemovesTab ==
  Closed =>
    /\ TabIndex(tabs, closedId) = 0
    /\ tabs # <<>>
    /\ HasActiveTab

\* C29: a tab with a path that is marked unmodified holds the content last
\* written to or read from its path, whatever edits interleave with a save.
C29_UnmodifiedMeansSaved ==
  \A k \in 1..Len(tabs) :
    (tabs[k].path # NoPath /\ ~tabs[k].isModified) =>
      tabs[k].content = synced[tabs[k].path]

----------------------------------------------------------------------------
(* HeadingIdPlugin: anchor ids of the headings                             *)

\* The number of nodes of a document.
MaxNodes == 3

\* The last millisecond Date.now() reaches in a run.
MaxClock == 2

\* node.attrs.id of a heading without one (the attribute's default, null)
NoId == <<>>

\* The ids headings arrive with from pasted or loaded HTML (data-id).
GivenIds == {<<"a">>, <<"b">>}

\* Math.random().toString(36).substr(2, 9)
Randoms == {"r1", "r2"}

\* generateHeadingId: `heading-${Date.now()}-${Math.random()...}`
generateHeadingId(t, r) == <<"heading", t, r>>

HeadingNode(id) == [type |-> "heading", id |-> id]

ParagraphNode == [type |-> "paragraph", id |-> NoId]

\* The callback of newState.doc.descendants, applied to the docNodes from the
\* k-th on; headingIds is the set built so far, t is Date.now() and rs[k]
\* is what Math.random gives when the k-th node asks for an id.
RECURSIVE AssignIds(_, _, _, _, _)
AssignIds(ns, k, headingIds, t, rs) ==
  IF k > Len(ns) THEN ns
  ELSE IF ns[k].type # "heading" THEN AssignIds(ns, k + 1, headingIds, t, rs)
  ELSE IF ns[k].id # NoId /\ ns[k].id \notin headingIds
       THEN AssignIds(ns, k + 1, headingIds \cup {ns[k].id}, t, rs)
  ELSE AssignIds([ns EXCEPT ![k].id = generateHeadingId(t, rs[k])], k + 1,
                 headingIds \cup {generateHeadingId(t, rs[k])}, t, rs)

\* appendTransaction for a transaction with docChanged
appendTransaction(ns, t, rs) == AssignIds(ns, 1, {}, t, rs)

\* ns with node n put before position k (k = Len(ns) + 1 appends)
InsertAt(ns, k, n) ==
  [j \in 1..(Len(ns) + 1) |-> IF j < k THEN ns[j] ELSE IF j = k THEN n ELSE ns[j - 1]]

\* ns without its k-th node
RemoveAt(ns, k) ==
  [j \in 1..(Len(ns) - 1) |-> IF j < k THEN ns[j] ELSE ns[j + 1]]

\* The document the editor is created with: the plugin has not seen it.
HeadingsInit ==
  /\ pc = "headings"
  /\ \E n \in 0..1 : \E ns \in [1..n -> {HeadingNode(NoId), HeadingNode(<<"a">>)}] : docNodes = ns
  /\ clock = 1
  /\ processed = FALSE
  /\ TabsIdle
  /\ ViewIdle
  /\ CompareIdle
  /\ ConvertIdle
  /\ ClassifyIdle
  /\ PasteIdle
  /\ SerializeIdle
  /\ RoundTripIdle

\* The editor dispatches a transaction that changed the document to
\* changed; the plugin's appendTransaction follows within the same dispatch.
Dispatch(changed) ==
  /\ \E rs \in [1..Len(changed) -> Randoms] :
       docNodes' = appendTransaction(changed, clock, rs)
  /\ processed' = TRUE
  /\ UNCHANGED <<pc, clock>>

\* The input rule '# ' turns a paragraph into a heading / a heading or a
\* paragraph is pasted: a node arrives with the id its HTML carries, or none.
InsertNode ==
  /\ pc = "headings"
  /\ Len(docNodes) < MaxNodes
  /\ \E k \in 1..(Len(docNodes) + 1) :
       \E n \in {HeadingNode(id) : id \in GivenIds \cup {NoId}} \cup {ParagraphNode} :
         Dispatch(InsertAt(docNodes, k, n))

\* Enter inside a heading splits it; both halves keep the attributes.
\* Copying a heading and pasting it has the same effect.
SplitNode ==
  /\ pc = "headings"
  /\ Len(docNodes) < MaxNodes
  /\ \E k \in 1..Len(docNodes) : Dispatch(InsertAt(docNodes, k + 1, docNodes[k]))

\* A node is deleted.
DeleteNode ==
  /\ pc = "headings"
  /\ \E k \in 1..Len(docNodes) : Dispatch(RemoveAt(docNodes, k))

\* A transaction without docChanged (a selection change): the plugin returns
\* at once. Time passes.
Tick ==
  /\ pc = "headings"
  /\ clock < MaxClock
  /\ clock' = clock + 1
  /\ UNCHANGED <<pc, docNodes, processed>>

notHeadingVars == <<convertVars, classifyVars, pasteVars, serializeVars, roundTripVars, tabVars, viewVars, compareVars>>

HeadingsNext ==
  \/ InsertNode /\ UNCHANGED notHeadingVars
  \/ SplitNode /\ UNCHANGED notHeadingVars
  \/ DeleteNode /\ UNCHANGED notHeadingVars
  \/ Tick /\ UNCHANGED notHeadingVars

SpecHeadings == HeadingsInit /\ [][HeadingsNext]_vars

\* The ids of the headings of the document, in document order.
RECURSIVE HeadingIdsOf(_)
HeadingIdsOf(ns) ==
  IF ns = <<>> THEN <<>>
  ELSE (IF Head(ns).type = "heading" THEN <<Head(ns).id>> ELSE <<>>) \o HeadingIdsOf(Tail(ns))

\* C23: once the plugin has processed a transaction that changed the
\* document, every heading has a non-empty id and no two headings share one.
C23_HeadingIdsUnique ==
  processed =>
    /\ \A k \in 1..Len(HeadingIdsOf(docNodes)) : HeadingIdsOf(docNodes)[k] # NoId
    /\ \A j, k \in 1..Len(HeadingIdsOf(docNodes)) :
         j # k => HeadingIdsOf(docNodes)[j] # HeadingIdsOf(docNodes)[k]

----------------------------------------------------------------------------
(* MermaidBlockNodeView and processMermaidInHTML: rendering a diagram      *)

\* The number of renderMermaid calls of a run.
MaxRenders == 2

\* Source texts: blank, one Mermaid accepts, one it rejects.
Sources == {<<" ">>, PieWord, <<"x", " ">>}

Themes == {"default", "forest"}

\* validateMermaid(code) and mermaid.render(id, code) both succeed
MermaidAccepts(code) == Trim(code) = PieWord

\* currentTheme === 'default' && resolvedTheme === 'dark' ? 'dark' : currentTheme
MermaidTheme(theme, resolved) ==
  IF theme = "default" /\ resolved = "dark" THEN "dark" ELSE theme

\* The svg renderMermaid resolves with.
Svg(code, theme) == [code |-> code, theme |-> theme]

\* error.message of the MermaidRenderError renderMermaid rejects with
ErrorOf(code) == <<"Failed to render Mermaid diagram", code>>

\* The timeout the debounce effect sets: setTimeout(() => { if (viewMode !==
\* 'source') renderDiagram(sourceCode) }, 500), with the values of its closure
Armed(code, theme, resolved, mode) ==
  [set |-> TRUE, code |-> code, theme |-> MermaidTheme(theme, resolved), viewMode |-> mode]

\* renderDiagram(code) up to its await
renderDiagram(code, theme) ==
  /\ latest' = [code |-> code, theme |-> theme]
  /\ IF Trim(code) = <<>>
     THEN /\ renderedSvg' = NoSvg
          /\ renderError' = NoError
          /\ UNCHANGED <<isRendering, inflight, requests>>
     ELSE /\ isRendering' = TRUE
          /\ renderError' = NoError
          /\ inflight' = inflight \cup {[seq |-> requests + 1, code |-> code, theme |-> theme]}
          /\ requests' = requests + 1
          /\ UNCHANGED renderedSvg

NoRender == UNCHANGED <<renderedSvg, renderError, isRendering, inflight, requests, latest>>

\* The effect on [currentTheme]: if (viewMode !== 'source' && sourceCode.trim())
\* renderDiagram(sourceCode)
ThemeEffect(code, theme, resolved, mode) ==
  IF mode # "source" /\ Trim(code) # <<>>
  THEN renderDiagram(code, MermaidTheme(theme, resolved))
  ELSE NoRender

\* The element the export puts in the place of a diagram that rendered.
ExportContainer(svg) ==
  Element("div", <<"mermaid-diagram-export">>, <<>>, <<TextNode(<<svg>>)>>)

\* Variant of ExportErrorContainer that shows the message only.
ExportErrorMessageOnly(code) ==
  Element("div", <<"mermaid-error">>, <<>>, <<TextNode(ErrorOf(code))>>)

\* The element the export puts in the place of a diagram that failed to
\* render: the message, then pre.textContent = sourceCode
ExportErrorContainer(code) ==
  Element("div", <<"mermaid-error">>, <<>>,
          <<TextNode(ErrorOf(code)), Element("pre", <<>>, <<>>, <<TextNode(code)>>)>>)

\* block.querySelector('.mermaid-source code, textarea')
SourceCodeElements(block) == querySelectorAll(block, {"code", "textarea"})

\* One round of the loop of processMermaidInHTML
ExportBlock(block, theme) ==
  IF ~IsDiagramElement(block) \/ SourceCodeElements(block) = <<>> THEN block
  ELSE IF MermaidAccepts(textContent(SourceCodeElements(block)[1]))
       THEN ExportContainer(Svg(textContent(SourceCodeElements(block)[1]), theme))
       ELSE ExportErrorContainer(textContent(SourceCodeElements(block)[1]))

\* processMermaidInHTML(html, format)
processMermaidInHTML(html, theme) == [k \in 1..Len(html) |-> ExportBlock(html[k], theme)]

\* The node view before its first effects ran: its state is made from the node.
ViewInit ==
  /\ pc = "unmounted"
  /\ nodeText \in Sources
  /\ sourceCode = nodeText
  /\ currentTheme \in Themes
  /\ resolvedTheme \in {"light", "dark"}
  /\ viewMode \in {"source", "preview"}
  /\ renderedSvg = NoSvg
  /\ renderError = NoError
  /\ isRendering = FALSE
  /\ timer = NoTimer
  /\ inflight = {}
  /\ requests = 0
  /\ latest = NoRequest
  /\ exported = <<>>
  /\ TabsIdle
  /\ HeadingsIdle
  /\ CompareIdle
  /\ ConvertIdle
  /\ ClassifyIdle
  /\ PasteIdle
  /\ SerializeIdle
  /\ RoundTripIdle

\* The effects of the first render: the debounce effect arms its timeout,
\* the theme effect renders at once.
MountView ==
  /\ pc = "unmounted"
  /\ pc' = "view"
  /\ timer' = Armed(sourceCode, currentTheme, resolvedTheme, viewMode)
  /\ ThemeEffect(sourceCode, currentTheme, resolvedTheme, viewMode)
  /\ UNCHANGED <<nodeText, sourceCode, currentTheme, resolvedTheme, viewMode, exported>>

\* handleSourceChange(newCode): setSourceCode; the debounce effect runs again
handleSourceChange ==
  /\ pc = "view"
  /\ \E newCode \in Sources \ {sourceCode} :
       /\ sourceCode' = newCode
       /\ timer' = Armed(newCode, currentTheme, resolvedTheme, viewMode)
  /\ NoRender
  /\ UNCHANGED <<pc, nodeText, currentTheme, resolvedTheme, viewMode, exported>>

\* The timeout expires.
TimerFires ==
  /\ pc = "view"
  /\ timer.set
  /\ requests < MaxRenders
  /\ timer' = NoTimer
  /\ IF timer.viewMode # "source" THEN renderDiagram(timer.code, timer.theme) ELSE NoRender
  /\ UNCHANGED <<pc, nodeText, sourceCode, currentTheme, resolvedTheme, viewMode, exported>>

\* handleThemeChange(newTheme): setCurrentTheme; renderDiagram is made
\* anew, so the debounce effect runs again, and the theme effect renders
handleThemeChange ==
  /\ pc = "view"
  /\ requests < MaxRenders
  /\ \E newTheme \in Themes \ {currentTheme} :
       /\ currentTheme' = newTheme
       /\ timer' = Armed(sourceCode, newTheme, resolvedTheme, viewMode)
       /\ ThemeEffect(sourceCode, newTheme, resolvedTheme, viewMode)
  /\ UNCHANGED <<pc, nodeText, sourceCode, resolvedTheme, viewMode, exported>>

\* The application switches between light and dark: renderDiagram is made
\* anew and the debounce effect runs again.
ResolvedThemeChange ==
  /\ pc = "view"
  /\ \E resolved \in {"light", "dark"} \ {resolvedTheme} :
       /\ resolvedTheme' = resolved
       /\ timer' = Armed(sourceCode, currentTheme, resolved, viewMode)
  /\ NoRender
  /\ UNCHANGED <<pc, nodeText, sourceCode, currentTheme, viewMode, exported>>

\* handleEditorBlur: syncToNode() replaces the node's text by sourceCode
handleEditorBlur ==
  /\ pc = "view"
  /\ nodeText' = sourceCode
  /\ NoRender
  /\ UNCHANGED <<pc, sourceCode, currentTheme, resolvedTheme, viewMode, timer, exported>>

\* handleViewModeChange(newMode): syncToNode(), updateAttributes({ viewMode })
handleViewModeChange ==
  /\ pc = "view"
  /\ \E newMode \in {"source", "preview"} \ {viewMode} :
       /\ viewMode' = newMode
       /\ timer' = Armed(sourceCode, currentTheme, resolvedTheme, newMode)
  /\ nodeText' = sourceCode
  /\ NoRender
  /\ UNCHANGED <<pc, sourceCode, currentTheme, resolvedTheme, exported>>

\* await renderMermaid(...) resolves: setRenderedSvg(svg); setIsRendering(false)
RenderResolves ==
  /\ pc = "view"
  /\ \E r \in inflight :
       /\ MermaidAccepts(r.code)
       /\ renderedSvg' = Svg(r.code, r.theme)
       /\ inflight' = inflight \ {r}
  /\ isRendering' = FALSE
  /\ UNCHANGED <<pc, nodeText, sourceCode, currentTheme, resolvedTheme, viewMode,
                 renderError, timer, requests, latest, exported>>

\* await renderMermaid(...) rejects: setRenderError(message);
\* setRenderedSvg(''); setIsRendering(false)
RenderRejects ==
  /\ pc = "view"
  /\ \E r \in inflight :
       /\ ~MermaidAccepts(r.code)
       /\ renderError' = ErrorOf(r.code)
       /\ inflight' = inflight \ {r}
  /\ renderedSvg' = NoSvg
  /\ isRendering' = FALSE
  /\ UNCHANGED <<pc, nodeText, sourceCode, currentTheme, resolvedTheme, viewMode,
                 timer, requests, latest, exported>>

\* An export: processMermaidInHTML on the HTML of the document
Export ==
  /\ pc = "view"
  /\ \E html \in {<<DiagramElement(nodeText)>>} :
       exported' = [k \in 1..Len(html) |->
                      [block |-> html[k],
                       out |-> processMermaidInHTML(html, currentTheme)[k]]]
  /\ NoRender
  /\ UNCHANGED <<pc, nodeText, sourceCode, currentTheme, resolvedTheme, viewMode, timer>>

notViewVars == <<convertVars, classifyVars, pasteVars, serializeVars, roundTripVars,
                 tabVars, headingVars, compareVars>>

ViewNext ==
  \/ MountView /\ UNCHANGED notViewVars
  \/ handleSourceChange /\ UNCHANGED notViewVars
  \/ TimerFires /\ UNCHANGED notViewVars
  \/ handleThemeChange /\ UNCHANGED notViewVars
  \/ ResolvedThemeChange /\ UNCHANGED notViewVars
  \/ handleEditorBlur /\ UNCHANGED notViewVars
  \/ handleViewModeChange /\ UNCHANGED notViewVars
  \/ RenderResolves /\ UNCHANGED notViewVars
  \/ RenderRejects /\ UNCHANGED notViewVars
  \/ Export /\ UNCHANGED notViewVars

SpecView == ViewInit /\ [][ViewNext]_vars

----------------------------------------------------------------------------
(* Claims about rendering                                                  *)

\* A render that settles in this step by failing records the error, clears
\* the picture and touches neither the view's source nor the node's text.
FailureKeepsSource ==
  \A r \in inflight :
    (r \notin inflight' /\ ~MermaidAccepts(r.code)) =>
      /\ renderError' = ErrorOf(r.code)
      /\ renderedSvg' = NoSvg
      /\ sourceCode' = sourceCode
      /\ nodeText' = nodeText

\* An exported diagram that does not render is replaced by an error block
\* that holds the source as it was, in a pre element.
ExportShowsSource ==
  \A k \in 1..Len(exported) :
    ~MermaidAccepts(textContent(exported[k].block)) =>
      /\ exported[k].out.cls = <<"mermaid-error">>
      /\ \E j \in 1..Len(exported[k].out.kids) :
           /\ exported[k].out.kids[j].tag = "pre"
           /\ textContent(exported[k].out.kids[j]) = textContent(exported[k].block)

\* C24: a failed render is recorded as an error and leaves the source
\* recoverable: the node view keeps sourceCode and the node keeps its text,
\* and the export emits an error block that contains the raw source.
C24_RenderFailureKeepsSource ==
  [][FailureKeepsSource]_vars /\ []ExportShowsSource

\* A render failed in the view and the export replaced the failing diagram.
C24_Witness ==
  /\ renderError # NoError
  /\ sourceCode = <<"x", " ">>
  /\ nodeText = <<"x", " ">>
  /\ exported # <<>>
  /\ exported[1].out.cls = <<"mermaid-error">>

\* renderDiagram was called and every renderMermaid call has settled.
AllRendersSettled == latest # NoRequest /\ inflight = {}

\* What the view shows once a call renderDiagram(code) with the theme has
\* run to its end with no other call around.
OutcomeOf(request) ==
  IF Trim(request.code) = <<>> THEN [svg |-> NoSvg, error |-> NoError]
  ELSE IF MermaidAccepts(request.code)
       THEN [svg |-> Svg(request.code, request.theme), error |-> NoError]
       ELSE [svg |-> NoSvg, error |-> ErrorOf(request.code)]

\* C30: once all renders in flight have settled, the picture or the error
\* shown, and the rendering flag, are those of the latest request; an
\* earlier request that settles later does not overwrite a newer result.
C30_LatestRenderWins ==
  AllRendersSettled =>
    /\ ~isRendering
    /\ renderedSvg = OutcomeOf(latest).svg
    /\ renderError = OutcomeOf(latest).error

----------------------------------------------------------------------------
(* The two converters that splice diagrams, side by side                   *)

\* The number of pieces of a text given to both converters.
MaxCompareToks == 5

\* if (block.startIndex > lastIndex) htmlContent += convertMarkdownToHTML(beforeText)
HtmlBefore(md, cursor, block) ==
  IF block.startIndex > cursor THEN StdNodes(md, cursor, block.startIndex) ELSE <<>>

\* if (lastIndex < markdownText.length) htmlContent += convertMarkdownToHTML(afterText)
HtmlAfter(md, cursor) ==
  IF cursor < Len(md) THEN StdNodes(md, cursor, Len(md)) ELSE <<>>

\* The loop of convertMarkdownToTipTapHTML from block k on: the pieces of
\* htmlContent in order, the div of a diagram written as the node it parses to
RECURSIVE HtmlFrom(_, _, _, _)
HtmlFrom(md, blocks, k, cursor) ==
  IF k > Len(blocks) THEN HtmlAfter(md, cursor)
  ELSE HtmlBefore(md, cursor, blocks[k])
         \o <<MermaidNode(blocks[k])>>
         \o (IF NeedsSeparator(md, blocks, k) THEN <<ParaNode>> ELSE <<>>)
         \o HtmlFrom(md, blocks, k + 1, NextCursor(blocks[k]))

\* convertMarkdownToTipTapHTML(markdownText, schema)
convertMarkdownToTipTapHTML(md) ==
  IF extractMermaidBlocks(md) = <<>> THEN WholeNodes(md)
  ELSE HtmlFrom(md, extractMermaidBlocks(md), 1, 0)

ConvertersInit ==
  /\ pc = "compare"
  /\ \E n \in 0..MaxCompareToks :
       \E toks \in [1..n -> Tokens] : markdownInput = Concat(toks, n)
  /\ nodesResult = NotCalled
  /\ htmlResult = NotCalled
  /\ pastedHtml = NotCalled
  /\ convertedHtml = NotCalled
  /\ TabsIdle
  /\ HeadingsIdle
  /\ ViewIdle
  /\ ConvertIdle
  /\ ClassifyIdle
  /\ PasteIdle
  /\ SerializeIdle
  /\ RoundTripIdle

\* convertMarkdownToTipTapNodes(markdownInput, schema) is called
CallNodes ==
  /\ pc = "compare"
  /\ nodesResult = NotCalled
  /\ nodesResult' = convertMarkdownToTipTapNodes(markdownInput)
  /\ UNCHANGED <<pc, markdownInput, htmlResult, pastedHtml, convertedHtml>>

\* convertMarkdownToTipTapHTML(markdownInput, schema) is called
CallHTML ==
  /\ pc = "compare"
  /\ htmlResult = NotCalled
  /\ htmlResult' = convertMarkdownToTipTapHTML(markdownInput)
  /\ UNCHANGED <<pc, markdownInput, nodesResult, pastedHtml, convertedHtml>>

notCompareVars == <<convertVars, classifyVars, pasteVars, serializeVars, roundTripVars,
                    tabVars, headingVars, viewVars>>

ConvertersNext ==
  \/ CallNodes /\ UNCHANGED notCompareVars
  \/ CallHTML /\ UNCHANGED notCompareVars

SpecConverters == ConvertersInit /\ [][ConvertersNext]_vars

\* C25: on every text the two converters produce the same items in the same
\* order: the same spans given to the standard converter, the same diagram
\* blocks with the same kind and content, separators at the same places.
C25_ConvertersAgree ==
  (nodesResult # NotCalled /\ htmlResult # NotCalled) => nodesResult = htmlResult

----------------------------------------------------------------------------
(* Line-by-line conversion: the paste handler beside convertMarkdownToHTML *)

\* The number of pieces of a text given to both.
MaxLineToks == 4

\* [](): a link, inline syntax the paste handler's sniffer accepts
LinkSyntax == <<"[", "]", "(", ")">>

\* The pieces the texts are concatenated from: a link, a letter, the line
\* break, the space, and the marks of a heading and of a list item.
LineTokens == {LinkSyntax, <<"x">>, <<"\n">>, <<" ">>, <<"#">>, <<"-">>}

\* marked(src): one call of the standard converter, kept as the call it was
MarkedCall(src) == [type |-> "marked", src |-> src]

\* lines.map(line => marked(line)), joined in the order of the lines
MapMarked(lines) == [k \in 1..Len(lines) |-> MarkedCall(lines[k])]

\* handlePaste: text.split('\n').filter(line => line.trim())
PasteLines(text) == SelectSeq(Split(text, NL), LAMBDA line : Trim(line) # <<>>)

\* handlePaste: the six patterns of its hasBlockSyntax, tested on one line
PasteLineHasBlockSyntax(line) ==
  \/ \E e \in RunEnds(line, {"#"}, 0, 1, 6) : IsSpaceAt(line, e)
  \/ \E p \in LeadingSpaceEnds(line) :
       p < Len(line) /\ line[p + 1] \in {"-", "*", "+"} /\ IsSpaceAt(line, p + 1)
  \/ \E p \in LeadingSpaceEnds(line) :
       \E e \in RunEnds(line, Digits, p, 1, Len(line)) :
         e < Len(line) /\ line[e + 1] = "." /\ IsSpaceAt(line, e + 1)
  \/ \E p \in LeadingSpaceEnds(line) :
       p < Len(line) /\ line[p + 1] = ">" /\ IsSpaceAt(line, p + 1)
  \/ \E p \in LeadingSpaceEnds(line) : StartsWithAt(line, Fence, p)
  \/ \E p \in LeadingSpaceEnds(line) : \E q \in (p + 1)..Len(line) :
       /\ StartsWithAt(line, <<"|">>, p)
       /\ StartsWithAt(line, <<"|">>, q)
       /\ DotStar(line, p + 1, q)

\* Variant of PasteHtml that keeps the html of the whole text.
PasteHtmlWholeOnly(text) == <<MarkedCall(text)>>

\* handlePaste, lines 52-73: let html = marked(text); then, for several
\* lines without block syntax, html = lines.map(line => marked(line)).join('')
PasteHtml(text) ==
  IF Len(PasteLines(text)) > 1
       /\ ~\E k \in 1..Len(PasteLines(text)) : PasteLineHasBlockSyntax(PasteLines(text)[k])
  THEN MapMarked(PasteLines(text))
  ELSE <<MarkedCall(text)>>

\* convertMarkdownToHTML(markdownText), as the marked calls it joins
ConvertHtml(text) ==
  IF Len(FilteredLines(text)) > 1
       /\ ~\E k \in 1..Len(FilteredLines(text)) : LineHasBlockSyntax(FilteredLines(text)[k])
  THEN MapMarked(FilteredLines(text))
  ELSE <<MarkedCall(text)>>

LinesInit ==
  /\ pc = "lines"
  /\ \E n \in 0..MaxLineToks :
       \E toks \in [1..n -> LineTokens] : markdownInput = Concat(toks, n)
  /\ nodesResult = NotCalled
  /\ htmlResult = NotCalled
  /\ pastedHtml = NotCalled
  /\ convertedHtml = NotCalled
  /\ TabsIdle
  /\ HeadingsIdle
  /\ ViewIdle
  /\ ConvertIdle
  /\ ClassifyIdle
  /\ PasteIdle
  /\ SerializeIdle
  /\ RoundTripIdle

\* The text is pasted: handlePaste gets as far as its try block when the
\* text is not empty and the sniffer accepts it.
PasteToHtml ==
  /\ pc = "lines"
  /\ pastedHtml = NotCalled
  /\ markdownInput # <<>>
  /\ hasMarkdownSyntax(markdownInput)
  /\ pastedHtml' = PasteHtml(markdownInput)
  /\ UNCHANGED <<pc, markdownInput, nodesResult, htmlResult, convertedHtml>>

\* convertMarkdownToHTML(markdownInput) is called
ConvertToHtml ==
  /\ pc = "lines"
  /\ convertedHtml = NotCalled
  /\ convertedHtml' = ConvertHtml(markdownInput)
  /\ UNCHANGED <<pc, markdownInput, nodesResult, htmlResult, pastedHtml>>

LinesNext ==
  \/ PasteToHtml /\ UNCHANGED notCompareVars
  \/ ConvertToHtml /\ UNCHANGED notCompareVars

SpecLines == LinesInit /\ [][LinesNext]_vars

\* The non-blank lines of s, in order.
NonBlankLinesInOrder(s) ==
  SelectSeq(LinesOf(s), LAMBDA line : Trim(line) # <<>>)

\* s has several non-blank lines and none carries block-level syntax.
SeveralPlainLines(s) ==
  /\ Cardinality(NonBlankLines(s)) > 1
  /\ \A n \in NonBlankLines(s) : ~LineHasBlockSyntax(LinesOf(s)[n])

\* What the claim says a conversion of s consists of.
ExpectedCalls(s) ==
  IF SeveralPlainLines(s)
  THEN [k \in 1..Len(NonBlankLinesInOrder(s)) |-> MarkedCall(NonBlankLinesInOrder(s)[k])]
  ELSE <<MarkedCall(s)>>

\* C26: a text with several non-blank lines and no block-level syntax is
\* converted line by line, the results joined in line order; any other text
\* is converted in one call; the paste handler and convertMarkdownToHTML
\* do the same on every text.
C26_LineByLineConversion ==
  /\ pastedHtml # NotCalled => pastedHtml = ExpectedCalls(markdownInput)
  /\ convertedHtml # NotCalled => convertedHtml = ExpectedCalls(markdownInput)
  /\ (pastedHtml # NotCalled /\ convertedHtml # NotCalled) => pastedHtml = convertedHtml

\* Both have converted a pasted text of two plain lines, line by line.
C26_Witness ==
  /\ pastedHtml # NotCalled
  /\ convertedHtml # NotCalled
  /\ SeveralPlainLines(markdownInput)
  /\ Len(pastedHtml) = 2
  /\ pastedHtml[1].src # pastedHtml[2].src

----------------------------------------------------------------------------
(* Claims about the scanner's segments taken together                      *)

\* The segment lies in the text and is not empty.
WellFormedSegment(b) ==
  /\ 0 <= b.startIndex
  /\ b.startIndex < b.endIndex
  /\ b.endIndex <= Len(markdownText)

\* No segment begins before the one in front of it has ended.
SegmentsDoNotOverlap ==
  \A k \in 1..(Len(mermaidBlocks) - 1) :
    mermaidBlocks[k].endIndex <= mermaidBlocks[k + 1].startIndex

\* The converter's cursor is not past the start of the segment it emits next.
CursorBeforeNextSegment ==
  (pc = "loop" /\ i < Len(mermaidBlocks)) =>
    lastIndex <= mermaidBlocks[i + 1].startIndex

\* C27: for every text, each segment of the scanner satisfies
\* 0 <= startIndex < endIndex <= text.length, each segment ends no later
\* than the next one starts, and the converter's cursor never passes the
\* start of a segment it has not emitted yet.
C27_SegmentsWellFormedAndDisjoint ==
  Scanned =>
    /\ \A k \in 1..Len(mermaidBlocks) : WellFormedSegment(mermaidBlocks[k])
    /\ SegmentsDoNotOverlap
    /\ CursorBeforeNextSegment

\* What remains of C27 for the texts whose segments all start at an opening
\* fence.
C27_HoldsWhenFenced ==
  (Scanned /\ EverySegmentFenced) =>
    /\ \A k \in 1..Len(mermaidBlocks) : WellFormedSegment(mermaidBlocks[k])
    /\ SegmentsDoNotOverlap
    /\ CursorBeforeNextSegment

====
